---- MODULE Spec2Model ----
(***************************************************************************)
(* Model of the video pipeline of dantunmibi/ytgardening:                  *)
(*   - .github/scripts/create_video.py : scene timing (measured and        *)
(*     estimated paths), scene placement, caption wrapping and font fit;   *)
(*   - .github/scripts/generate_tts.py : per-section narration files and   *)
(*     the combined voice.mp3.                                             *)
(*                                                                         *)
(* Conventions.  A Python str is a sequence of one-character strings; the  *)
(* line break is the character NL.  A Python float holding seconds is an   *)
(* exact rational [n, d] in lowest terms (d > 0): every float operation of *)
(* the code is the same operation on rationals, so binary rounding errors  *)
(* (about 1e-15 s) are not represented.                                    *)
(***************************************************************************)
EXTENDS Integers, Sequences, FiniteSets, TLC

(* ------------------------------ bounds --------------------------------- *)

\* most bullets in a script
MaxBullets == 3
\* most words in one section text of the timing model
MaxWords == 3
\* narration lengths (milliseconds) the timing model is run with
ShortAudioMs == 3000
MidAudioMs == 12500
LongAudioMs == 60000

(* ------------------------------ strings -------------------------------- *)

SP == " "
NL == "NL"

IsSpace(c) == c = SP \/ c = NL

\* the least index of a non-empty set of indices
First(S) == CHOOSE x \in S : \A y \in S : x <= y

RECURSIVE SplitFrom(_, _)
\* str.split(): the maximal runs of non-whitespace characters, in order, from index i on
SplitFrom(s, i) ==
    IF \A j \in i..Len(s) : IsSpace(s[j])
    THEN <<>>
    ELSE <<SubSeq(s, First({j \in i..Len(s) : ~IsSpace(s[j])}),
                     First({j \in First({k \in i..Len(s) : ~IsSpace(s[k])})..Len(s) :
                               j = Len(s) \/ IsSpace(s[j + 1])}))>>
         \o SplitFrom(s, First({j \in First({k \in i..Len(s) : ~IsSpace(s[k])})..Len(s) :
                                   j = Len(s) \/ IsSpace(s[j + 1])}) + 1)

Split(s) == SplitFrom(s, 1)

RECURSIVE Join(_, _)
\* sep.join(parts)
Join(sep, parts) ==
    IF parts = <<>> THEN <<>>
    ELSE IF Len(parts) = 1 THEN parts[1]
    ELSE parts[1] \o sep \o Join(sep, Tail(parts))

\* bool(text): a str is true when it has at least one character
Truthy(s) == Len(s) > 0

\* text.strip() is empty: the text holds whitespace only
StripEmpty(s) == \A i \in 1..Len(s) : IsSpace(s[i])

\* len(text.split())
WordCount(s) == Len(Split(s))

\* the character c, n times
Repeat(c, n) == [k \in 1..n |-> c]

\* a text of n one-letter words separated by single spaces
WordsText(n) == Join(<<SP>>, [k \in 1..n |-> <<"a">>])

(* ----------------------------- rationals ------------------------------- *)

Abs(x) == IF x < 0 THEN -x ELSE x

RECURSIVE GCD(_, _)
GCD(a, b) == IF b = 0 THEN a ELSE GCD(b, a % b)

LCM(a, b) == (a \div GCD(a, b)) * b

Norm(n, d) ==
    LET g == GCD(Abs(n), d)
    IN  [n |-> IF n < 0 THEN -(Abs(n) \div g) ELSE n \div g, d |-> d \div g]

R(n, d) == Norm(n, d)
Zero == [n |-> 0, d |-> 1]
One == [n |-> 1, d |-> 1]

RAdd(a, b) ==
    LET l == LCM(a.d, b.d)
    IN  Norm(a.n * (l \div a.d) + b.n * (l \div b.d), l)

RNeg(a) == [n |-> -a.n, d |-> a.d]
RSub(a, b) == RAdd(a, RNeg(b))

RMul(a, b) ==
    LET g1 == GCD(Abs(a.n), b.d)
        g2 == GCD(Abs(b.n), a.d)
        an == IF a.n < 0 THEN -(Abs(a.n) \div g1) ELSE a.n \div g1
        bn == IF b.n < 0 THEN -(Abs(b.n) \div g2) ELSE b.n \div g2
    IN  Norm(an * bn, (a.d \div g2) * (b.d \div g1))

\* a / b for b # 0
RDiv(a, b) ==
    RMul(a, [n |-> IF b.n < 0 THEN -b.d ELSE b.d, d |-> Abs(b.n)])

RLeq(a, b) ==
    LET l == LCM(a.d, b.d)
    IN  a.n * (l \div a.d) <= b.n * (l \div b.d)

RLt(a, b) == ~RLeq(b, a)
RMax(a, b) == IF RLeq(a, b) THEN b ELSE a
RAbs(a) == [n |-> Abs(a.n), d |-> a.d]

RECURSIVE RSum(_)
\* sum(list)
RSum(s) == IF s = <<>> THEN Zero ELSE RAdd(s[1], RSum(Tail(s)))

(* ------------------- create_video.py: program state -------------------- *)

VARIABLES
    pc,              \* position in the script being run
    hook,            \* data["hook"]
    bullets,         \* data["bullets"]
    cta,             \* data["cta"]
    section_files,   \* tmp/hook.mp3, tmp/bullet_i.mp3, tmp/cta.mp3: length in ms, or Missing
    voice_ms,        \* length of tmp/voice.mp3 in ms
    audio_readable,  \* whether pydub can decode voice.mp3 for the pacing estimate
    timing_path,     \* "measured" or "estimated" (which branch of line 464 ran)
    hook_dur,
    bullet_durs,
    cta_dur,
    duration_diff,   \* the rounding correction computed at line 540
    clips,
    current_time,
    bullet_i,        \* index of the next bullet of the placement loop (1-based)
    final_timeline,
    tts_i,           \* generate_tts.py: index of the next section of the generation loop
    section_paths    \* generate_tts.py: the sections whose file was generated, in order

tts_vars == <<tts_i, section_paths>>

\* the caption fitter of create_video.py (smart_text_wrap, create_text_with_effects)
VARIABLES
    caption_text,    \* the text argument of the caption fitter
    font_ok,         \* whether ImageFont.truetype(FONT, size) loads the font
    wrap_args,       \* font_size and max_width of the last smart_text_wrap call
    wrap_out,        \* what that call returned
    font_size,       \* create_text_with_effects: the local font_size
    wrapped_text,    \* create_text_with_effects: the local wrapped_text
    total_height,
    max_line_width,
    iterations

wrap_vars ==
    <<caption_text, font_ok, wrap_args, wrap_out, font_size, wrapped_text, total_height,
      max_line_width, iterations>>

\* create_scene of create_video.py: its arguments, locals and result
VARIABLES
    image_path,      \* the image_path argument: None, or the path of a scene image
    image_on_disk,   \* os.path.exists(image_path)
    scene_duration,  \* the duration argument
    scene_start,     \* the start_time argument
    position_y,      \* the position_y argument: a policy or an explicit pixel value
    scene_clips,     \* the list create_scene returns
    text_height,     \* text_clip.h of the rendered caption
    pos_y

scene_vars ==
    <<image_path, image_on_disk, scene_duration, scene_start, position_y, scene_clips,
      text_height, pos_y>>

\* scene image generation of create_video.py (lines 63-440)
VARIABLES
    disk,            \* tmp/: size in bytes of each scene image file, or Missing
    hf_token,        \* whether HUGGINGFACE_API_KEY is set
    img_scene,       \* the scene whose image is generated: 0 hook, 1..n bullets, n+1 cta
    img_log,         \* the sources requested so far by this run of generate_image_reliable
    last_status,     \* the response to the last request
    hf_model,        \* generate_image_huggingface: index of the next model
    pexels_i,        \* generate_picsum_fallback: index of the next Pexels photo
    retry_attempt,   \* tenacity: the attempt of generate_image_reliable that is running
    img_result,      \* what generate_image_reliable returned
    scene_images

img_vars ==
    <<disk, hf_token, img_scene, img_log, last_status, hf_model, pexels_i, retry_attempt,
      img_result, scene_images>>

\* the variables of create_video.py's timing and placement, other than pc
core_vars ==
    <<hook, bullets, cta, section_files, voice_ms, audio_readable, timing_path, hook_dur,
      bullet_durs, cta_dur, duration_diff, clips, current_time, bullet_i, final_timeline>>

\* generate_trending_and_script.py: the generation loop, over several runs
VARIABLES
    history_file,    \* tmp/content_history.json: its 'topics' list (empty when absent)
    history,         \* history = load_history() of line 203: the 'topics' list
    attempt,
    data,            \* the script of the current attempt, or the fallback
    script_json,     \* tmp/script.json as written by this run, NoScript before
    run              \* the number of runs started

gen_vars == <<history_file, history, attempt, data, script_json, run>>

\* the history appends of generate_trending_and_script.py and upload_youtube.py
VARIABLES
    upload_log,        \* tmp/upload_history.json (empty when absent)
    clock,             \* datetime.now(), counted in appends
    topics_appended,   \* every record save_to_history appended, in order
    uploads_appended   \* every record upload_youtube.py appended, in order

hist_vars == <<upload_log, clock, topics_appended, uploads_appended>>

\* upload_multiplatform.py
VARIABLES
    script_exists,     \* os.path.exists(script_path)
    video_exists,      \* os.path.exists(VIDEO)
    enabled_platforms, \* get_enabled_platforms(), in priority order
    platform_i,        \* index of the platform being uploaded to
    upload_attempt,    \* attempt of the retry loop of lines 381-402
    results,           \* self.results
    upload_result,     \* the local result of upload_to_all, unbound before its first assignment
    exit_code          \* the exit status of the process, Running before it ends

upl_vars ==
    <<script_exists, video_exists, enabled_platforms, platform_i, upload_attempt, results,
      upload_result, exit_code>>

(* ------------------- the state of the other stages -------------------- *)

\* the tmp directory shared by the stages that follow script generation
VARIABLES
    tmp_dir,    \* the files of tmp/: who wrote each one last and, for script.json, the script
    stage_read  \* the script each stage loaded, by stage

dir_vars ==
    <<tmp_dir, stage_read>>

DirIdle ==
    /\ tmp_dir = <<>>
    /\ stage_read = <<>>

\* create_scene called a second time with the arguments of the first call
VARIABLES
    scene_call,  \* 1 during the first call, 2 during the second, 0 when there is none
    first_clips  \* the layers the first call returned

again_vars ==
    <<scene_call, first_clips>>

AgainIdle ==
    /\ scene_call = 0
    /\ first_clips = <<>>

\* upload_multiplatform.py: what get_enabled_platforms reads
VARIABLES
    platform_config, \* platform_config.json: enabled and priority of each platform
    input_platforms, \* os.getenv("PLATFORMS", "") as its comma-separated parts
    force_all        \* os.getenv("FORCE_ALL", "false").lower() == "true"

cfg_vars ==
    <<platform_config, input_platforms, force_all>>

CfgIdle ==
    /\ platform_config = <<>>
    /\ input_platforms = <<>>
    /\ force_all = FALSE

\* manage_playlists.py: the playlists of the channel
VARIABLES
    playlist_items, \* the video ids of each playlist, in playlist order
    add_call        \* the last call of add_video_to_playlist: its arguments, what it found, did and returned

pl_vars ==
    <<playlist_items, add_call>>

PlIdle ==
    /\ playlist_items = <<>>
    /\ add_call = <<>>

\* upload_multiplatform.py: the video file handed to each uploader
VARIABLES
    video_title, \* data.get("title") of script.json
    tmp_mp4,     \* the modification time of each file of tmp whose name ends in .mp4
    invoked      \* for each platform's pass the path given to uploader.upload and whether it existed

path_vars ==
    <<video_title, tmp_mp4, invoked>>

PathIdle ==
    /\ video_title = <<>>
    /\ tmp_mp4 = <<>>
    /\ invoked = <<>>

\* generate_tts.py: the proportional split of the gTTS narration
VARIABLES
    total_ms,    \* len(full_audio), the length of the narration gTTS returned
    current_pos, \* where the next slice starts
    slices       \* for each section that got a slice: its start, its computed length and the length of the slice

split_vars ==
    <<total_ms, current_pos, slices>>

SplitIdle ==
    /\ total_ms = 0
    /\ current_pos = 0
    /\ slices = <<>>

\* optimal_scheduler.py run as a script
VARIABLES
    weekday,          \* current.weekday(), 0 for Monday
    hour,             \* current.hour
    minute,           \* current.minute
    ignore_input,     \* the text compared with 'true' at line 105
    module_decision,  \* should_post and priority as the module-level check assigned them
    posting_schedule  \* posting_schedule.json, <<>> while it is not written

sched_vars ==
    <<weekday, hour, minute, ignore_input, module_decision, posting_schedule>>

SchedIdle ==
    /\ weekday = 0
    /\ hour = 0
    /\ minute = 0
    /\ ignore_input = "none"
    /\ module_decision = <<>>
    /\ posting_schedule = <<>>

pipe_vars ==
    <<dir_vars, again_vars, cfg_vars, pl_vars, path_vars, split_vars, sched_vars>>

\* none of these stages has run
PipeIdle ==
    /\ DirIdle
    /\ AgainIdle
    /\ CfgIdle
    /\ PlIdle
    /\ PathIdle
    /\ SplitIdle
    /\ SchedIdle

\* what the steps that change dir_vars leave alone
dir_frame ==
    <<core_vars, tts_vars, wrap_vars, scene_vars, img_vars, gen_vars, hist_vars, upl_vars,
      again_vars, cfg_vars, pl_vars, path_vars, split_vars, sched_vars>>

\* the state of the other stages of this group
dir_rest ==
    <<again_vars, cfg_vars, pl_vars, path_vars, split_vars, sched_vars>>

\* of these stages only the one of dir_vars runs
DirAlone ==
    /\ AgainIdle
    /\ CfgIdle
    /\ PlIdle
    /\ PathIdle
    /\ SplitIdle
    /\ SchedIdle

\* what the steps that change again_vars leave alone
again_frame ==
    <<core_vars, tts_vars, wrap_vars, scene_vars, img_vars, gen_vars, hist_vars, upl_vars,
      dir_vars, cfg_vars, pl_vars, path_vars, split_vars, sched_vars>>

\* the state of the other stages of this group
again_rest ==
    <<dir_vars, cfg_vars, pl_vars, path_vars, split_vars, sched_vars>>

\* of these stages only the one of again_vars runs
AgainAlone ==
    /\ DirIdle
    /\ CfgIdle
    /\ PlIdle
    /\ PathIdle
    /\ SplitIdle
    /\ SchedIdle

\* what the steps that change cfg_vars leave alone
cfg_frame ==
    <<core_vars, tts_vars, wrap_vars, scene_vars, img_vars, gen_vars, hist_vars, upl_vars,
      dir_vars, again_vars, pl_vars, path_vars, split_vars, sched_vars>>

\* the state of the other stages of this group
cfg_rest ==
    <<dir_vars, again_vars, pl_vars, path_vars, split_vars, sched_vars>>

\* of these stages only the one of cfg_vars runs
CfgAlone ==
    /\ DirIdle
    /\ AgainIdle
    /\ PlIdle
    /\ PathIdle
    /\ SplitIdle
    /\ SchedIdle

\* what the steps that change pl_vars leave alone
pl_frame ==
    <<core_vars, tts_vars, wrap_vars, scene_vars, img_vars, gen_vars, hist_vars, upl_vars,
      dir_vars, again_vars, cfg_vars, path_vars, split_vars, sched_vars>>

\* the state of the other stages of this group
pl_rest ==
    <<dir_vars, again_vars, cfg_vars, path_vars, split_vars, sched_vars>>

\* of these stages only the one of pl_vars runs
PlAlone ==
    /\ DirIdle
    /\ AgainIdle
    /\ CfgIdle
    /\ PathIdle
    /\ SplitIdle
    /\ SchedIdle

\* what the steps that change path_vars leave alone
path_frame ==
    <<core_vars, tts_vars, wrap_vars, scene_vars, img_vars, gen_vars, hist_vars, upl_vars,
      dir_vars, again_vars, cfg_vars, pl_vars, split_vars, sched_vars>>

\* the state of the other stages of this group
path_rest ==
    <<dir_vars, again_vars, cfg_vars, pl_vars, split_vars, sched_vars>>

\* of these stages only the one of path_vars runs
PathAlone ==
    /\ DirIdle
    /\ AgainIdle
    /\ CfgIdle
    /\ PlIdle
    /\ SplitIdle
    /\ SchedIdle

\* what the steps that change split_vars leave alone
split_frame ==
    <<core_vars, tts_vars, wrap_vars, scene_vars, img_vars, gen_vars, hist_vars, upl_vars,
      dir_vars, again_vars, cfg_vars, pl_vars, path_vars, sched_vars>>

\* the state of the other stages of this group
split_rest ==
    <<dir_vars, again_vars, cfg_vars, pl_vars, path_vars, sched_vars>>

\* of these stages only the one of split_vars runs
SplitAlone ==
    /\ DirIdle
    /\ AgainIdle
    /\ CfgIdle
    /\ PlIdle
    /\ PathIdle
    /\ SchedIdle

\* what the steps that change sched_vars leave alone
sched_frame ==
    <<core_vars, tts_vars, wrap_vars, scene_vars, img_vars, gen_vars, hist_vars, upl_vars,
      dir_vars, again_vars, cfg_vars, pl_vars, path_vars, split_vars>>

\* the state of the other stages of this group
sched_rest ==
    <<dir_vars, again_vars, cfg_vars, pl_vars, path_vars, split_vars>>

\* of these stages only the one of sched_vars runs
SchedAlone ==
    /\ DirIdle
    /\ AgainIdle
    /\ CfgIdle
    /\ PlIdle
    /\ PathIdle
    /\ SplitIdle

\* the state of the stages other than scene timing, narration and caption fitting
ext_vars == <<scene_vars, img_vars, gen_vars, hist_vars, upl_vars, pipe_vars>>

\* what the steps of create_scene leave alone, the caption fitter aside
scene_frame == <<core_vars, tts_vars, img_vars, gen_vars, hist_vars, upl_vars, pipe_vars>>

\* what the steps of scene image generation leave alone
img_frame ==
    <<core_vars, tts_vars, wrap_vars, scene_vars, gen_vars, hist_vars, upl_vars, pipe_vars>>

\* what the steps of script generation and of the history appends leave alone
gen_frame == <<core_vars, tts_vars, wrap_vars, scene_vars, img_vars, upl_vars, pipe_vars>>

\* what the steps of upload_multiplatform.py leave alone
upl_frame ==
    <<core_vars, tts_vars, wrap_vars, scene_vars, img_vars, gen_vars, hist_vars, pipe_vars>>

video_vars ==
    <<pc, hook, bullets, cta, section_files, voice_ms, audio_readable, timing_path,
      hook_dur, bullet_durs, cta_dur, duration_diff, clips, current_time, bullet_i,
      final_timeline>>

Missing == -1

\* audio.duration of voice.mp3, in seconds
duration == R(voice_ms, 1000)

\* the mutant of AllSectionFilesExist: the bullet files are not looked at
HookAndCtaFilesExist ==
    /\ section_files.hook # Missing
    /\ section_files.cta # Missing

\* os.path.exists(p) for p in [hook_path, cta_path] + bullet_paths
AllSectionFilesExist ==
    /\ section_files.hook # Missing
    /\ section_files.cta # Missing
    /\ \A i \in 1..Len(bullets) : section_files.bullets[i] # Missing

\* get_audio_duration(path): the file's length in seconds, 0 when it is absent
get_audio_duration(f) == IF f = Missing THEN Zero ELSE R(f, 1000)

fallback_wpm == 140

\* estimate_speech_duration(text, audio_path); voice.mp3 exists (line 442 raised otherwise)
estimate_speech_duration(text) ==
    LET words == WordCount(text)
        all_text == Join(<<SP>>, <<hook>> \o bullets \o <<cta>>)
        total_words == IF WordCount(all_text) = 0 THEN 1 ELSE WordCount(all_text)
        seconds_per_word == RDiv(duration, R(total_words, 1))
    IN  IF words = 0 THEN Zero
        ELSE IF audio_readable
             THEN RMul(seconds_per_word, R(words, 1))
             ELSE RMul(RDiv(R(words, 1), R(fallback_wpm, 1)), R(60, 1))

\* length of one cross-fade
CrossFade == R(3, 10)
\* shortest scene the cross-fade compensation leaves
MinScene == One
\* smallest residual the rounding correction acts on
CorrectionThreshold == R(1, 100)

\* max(1.0, d - (total_overlap * d / total_base))
Shrink(d, total_overlap, total_base) ==
    RMax(MinScene, RSub(d, RDiv(RMul(total_overlap, d), total_base)))

\* the mutant of RoundingCorrection: the residual is never added
NoRoundingCorrection(c, diff) == c

\* if abs(duration_diff) > 0.01: cta_dur += duration_diff
RoundingCorrection(c, diff) ==
    IF RLt(CorrectionThreshold, RAbs(diff)) THEN RAdd(c, diff) ELSE c

\* lines 466-468
MeasuredTiming ==
    [hook_dur |-> get_audio_duration(section_files.hook),
     bullet_durs |-> [i \in 1..Len(bullets) |-> get_audio_duration(section_files.bullets[i])],
     cta_dur |-> get_audio_duration(section_files.cta),
     duration_diff |-> Zero]

\* lines 496-498: the estimate of every section
estimates ==
    [hook |-> estimate_speech_duration(hook),
     bullets |-> [i \in 1..Len(bullets) |-> estimate_speech_duration(bullets[i])],
     cta |-> estimate_speech_duration(cta)]

\* hook + sum(bullets) + cta of a triple of durations
SumOf(t) == RAdd(RAdd(t.hook, RSum(t.bullets)), t.cta)

\* (1 if hook else 0) + len(bullets) + (1 if cta else 0)
num_sections ==
    (IF Truthy(hook) THEN 1 ELSE 0) + Len(bullets) + (IF Truthy(cta) THEN 1 ELSE 0)

\* max(0, num_sections - 1)
num_transitions == IF num_sections - 1 < 0 THEN 0 ELSE num_sections - 1

\* lines 502-508: every counted section gets duration / section_count
EqualSplit(equal_split) ==
    [hook_dur |-> IF Truthy(hook) THEN equal_split ELSE Zero,
     bullet_durs |-> [i \in 1..Len(bullets) |-> equal_split],
     cta_dur |-> IF Truthy(cta) THEN equal_split ELSE Zero,
     duration_diff |-> Zero]

\* lines 511-515: the estimates scaled to sum to the audio duration
Scaled(e, time_scale) ==
    [hook |-> RMul(e.hook, time_scale),
     bullets |-> [i \in 1..Len(bullets) |-> RMul(e.bullets[i], time_scale)],
     cta |-> RMul(e.cta, time_scale)]

\* lines 526-534: the shrink of the hook and the cta when non-empty, of every bullet
Compensated(t, total_overlap, total_base) ==
    IF RLt(Zero, total_base)
    THEN [hook |-> IF Truthy(hook) THEN Shrink(t.hook, total_overlap, total_base) ELSE t.hook,
          bullets |-> [i \in 1..Len(bullets) |-> Shrink(t.bullets[i], total_overlap, total_base)],
          cta |-> IF Truthy(cta) THEN Shrink(t.cta, total_overlap, total_base) ELSE t.cta]
    ELSE t

\* lines 517-536
WithCrossFade(t) ==
    IF num_transitions > 0
    THEN Compensated(t, RMul(CrossFade, R(num_transitions, 1)), SumOf(t))
    ELSE t

\* lines 538-544
WithCorrection(t) ==
    [hook_dur |-> t.hook,
     bullet_durs |-> t.bullets,
     cta_dur |-> RoundingCorrection(t.cta, RSub(duration, SumOf(t))),
     duration_diff |-> RSub(duration, SumOf(t))]

\* lines 496-544
EstimatedTiming ==
    IF SumOf(estimates) = Zero
    THEN EqualSplit(RDiv(duration, R(IF num_sections < 1 THEN 1 ELSE num_sections, 1)))
    ELSE WithCorrection(WithCrossFade(Scaled(estimates, RDiv(duration, SumOf(estimates)))))

\* lines 464-544: choose the timing source and compute every section's duration
SelectTiming ==
    /\ pc = "timing"
    /\ LET measured == AllSectionFilesExist
           t == IF measured THEN MeasuredTiming ELSE EstimatedTiming
       IN  /\ timing_path' = (IF measured THEN "measured" ELSE "estimated")
           /\ hook_dur' = t.hook_dur
           /\ bullet_durs' = t.bullet_durs
           /\ cta_dur' = t.cta_dur
           /\ duration_diff' = t.duration_diff
    /\ pc' = "hook"
    /\ UNCHANGED <<hook, bullets, cta, section_files, voice_ms, audio_readable,
                   clips, current_time, bullet_i, final_timeline,
                   tts_vars, wrap_vars, ext_vars>>

\* create_scene (lines 665-740): a background layer, and a text layer when text is true
create_scene(section, index, text, dur, start_time) ==
    <<[section |-> section, index |-> index, layer |-> "background",
       start |-> start_time, duration |-> dur]>>
    \o (IF Truthy(text)
        THEN <<[section |-> section, index |-> index, layer |-> "text",
                start |-> start_time, duration |-> dur]>>
        ELSE <<>>)

\* lines 743-754
PlaceHook ==
    /\ pc = "hook"
    /\ IF Truthy(hook)
       THEN /\ clips' = clips \o create_scene("hook", 0, hook, hook_dur, current_time)
            /\ current_time' = RAdd(current_time, hook_dur)
       ELSE UNCHANGED <<clips, current_time>>
    /\ pc' = "bullets"
    /\ bullet_i' = 1
    /\ UNCHANGED <<hook, bullets, cta, section_files, voice_ms, audio_readable, timing_path,
                   hook_dur, bullet_durs, cta_dur, duration_diff, final_timeline,
                   tts_vars, wrap_vars, ext_vars>>

\* the mutant of PlaceholderAdvance: the placeholder does not advance the timeline
PlaceholderNoAdvance(t, d) == t

\* line 764: current_time += bullet_duration after the placeholder clip
PlaceholderAdvance(t, d) == RAdd(t, d)

\* one iteration of the loop of lines 757-788, for bullet i
BulletIteration(cl, t, i) ==
    LET bullet == bullets[i]
        bullet_duration == bullet_durs[i]
    IN  IF ~Truthy(bullet) \/ StripEmpty(bullet)
        THEN [clips |-> Append(cl, [section |-> "bullet", index |-> i, layer |-> "placeholder",
                                    start |-> t, duration |-> bullet_duration]),
              current_time |-> PlaceholderAdvance(t, bullet_duration)]
        ELSE [clips |-> cl \o create_scene("bullet", i, bullet, bullet_duration, t),
              current_time |-> RAdd(t, bullet_duration)]

PlaceBullet ==
    /\ pc = "bullets"
    /\ bullet_i <= Len(bullets)
    /\ LET r == BulletIteration(clips, current_time, bullet_i)
       IN  /\ clips' = r.clips
           /\ current_time' = r.current_time
    /\ bullet_i' = bullet_i + 1
    /\ UNCHANGED <<pc, hook, bullets, cta, section_files, voice_ms, audio_readable, timing_path,
                   hook_dur, bullet_durs, cta_dur, duration_diff, final_timeline,
                   tts_vars, wrap_vars, ext_vars>>

\* lines 791-805
PlaceCta ==
    /\ pc = "bullets"
    /\ bullet_i > Len(bullets)
    /\ IF Truthy(cta)
       THEN /\ clips' = clips \o create_scene("cta", 0, cta, cta_dur, current_time)
            /\ current_time' = RAdd(current_time, cta_dur)
       ELSE UNCHANGED <<clips, current_time>>
    /\ pc' = "verify"
    /\ UNCHANGED <<hook, bullets, cta, section_files, voice_ms, audio_readable, timing_path,
                   hook_dur, bullet_durs, cta_dur, duration_diff, bullet_i, final_timeline,
                   tts_vars, wrap_vars, ext_vars>>

\* lines 808-817
VerifySync ==
    /\ pc = "verify"
    /\ final_timeline' = current_time
    /\ pc' = "done"
    /\ UNCHANGED <<hook, bullets, cta, section_files, voice_ms, audio_readable, timing_path,
                   hook_dur, bullet_durs, cta_dur, duration_diff, clips, current_time, bullet_i,
                   tts_vars, wrap_vars, ext_vars>>

(* --------------------- create_video.py: the inputs ---------------------- *)

\* section texts: "", " ", one word, and MaxWords words
Texts == {<<>>, <<SP>>, WordsText(1), WordsText(MaxWords)}

BulletLists == UNION {[1..n -> Texts] : n \in 0..MaxBullets}

Durations == {ShortAudioMs, MidAudioMs, LongAudioMs}

\* no section has a duration and no scene is placed yet
NoTimingYet ==
    /\ timing_path = "none"
    /\ hook_dur = Zero
    /\ bullet_durs = <<>>
    /\ cta_dur = Zero
    /\ duration_diff = Zero
    /\ clips = <<>>
    /\ current_time = Zero
    /\ bullet_i = 0
    /\ final_timeline = Zero

\* no caption is being fitted
WrapIdle ==
    /\ caption_text = <<>>
    /\ font_ok = TRUE
    /\ wrap_args = [font_size |-> 0, max_width |-> 0]
    /\ wrap_out = <<>>
    /\ font_size = 0
    /\ wrapped_text = <<>>
    /\ total_height = 0
    /\ max_line_width = 0
    /\ iterations = 0

\* create_scene is not being called
SceneIdle ==
    /\ image_path = "None"
    /\ image_on_disk = FALSE
    /\ scene_duration = Zero
    /\ scene_start = Zero
    /\ position_y = [policy |-> "center", pixel |-> 0]
    /\ scene_clips = <<>>
    /\ text_height = 0
    /\ pos_y = 0

\* None, where a path is expected
NoPath == [kind |-> "none", index |-> 0]

\* no scene image is being generated
ImgIdle ==
    /\ disk = <<>>
    /\ hf_token = FALSE
    /\ img_scene = 0
    /\ img_log = <<>>
    /\ last_status = [status |-> "none", bytes |-> 0]
    /\ hf_model = 0
    /\ pexels_i = 0
    /\ retry_attempt = 0
    /\ img_result = NoPath
    /\ scene_images = <<>>

\* no script has been written
NoScript == [fields |-> {}, bullets |-> 0, id |-> "none", title |-> {}]

\* the script generator has not run
GenIdle ==
    /\ history_file = <<>>
    /\ history = <<>>
    /\ attempt = 0
    /\ data = NoScript
    /\ script_json = NoScript
    /\ run = 0

\* nothing was appended to a history
HistIdle ==
    /\ upload_log = <<>>
    /\ clock = 0
    /\ topics_appended = <<>>
    /\ uploads_appended = <<>>

\* the process has not ended
Running == -1

\* result before its first assignment
Unbound == [kind |-> "unbound", platform |-> "none", success |-> FALSE]

\* upload_multiplatform.py has not run
UplIdle ==
    /\ script_exists = FALSE
    /\ video_exists = FALSE
    /\ enabled_platforms = <<>>
    /\ platform_i = 0
    /\ upload_attempt = 0
    /\ results = <<>>
    /\ upload_result = Unbound
    /\ exit_code = Running

ExtIdle == SceneIdle /\ ImgIdle /\ GenIdle /\ HistIdle /\ UplIdle /\ PipeIdle

\* create_video run on a tmp directory that holds voice.mp3 and no per-section file
Init ==
    /\ hook \in Texts
    /\ bullets \in BulletLists
    /\ cta \in Texts
    /\ voice_ms \in Durations
    /\ audio_readable \in BOOLEAN
    /\ section_files = [hook |-> Missing, cta |-> Missing,
                        bullets |-> [i \in 1..Len(bullets) |-> Missing]]
    /\ pc = "timing"
    /\ NoTimingYet
    /\ tts_i = 0
    /\ section_paths = <<>>
    /\ WrapIdle
    /\ ExtIdle

vars == <<video_vars, tts_vars, wrap_vars, ext_vars>>

Next == SelectTiming \/ PlaceHook \/ PlaceBullet \/ PlaceCta \/ VerifySync

Spec == Init /\ [][Next]_vars

(* ----------------------- claims on scene timing ------------------------ *)

\* hook_dur + sum(bullet_durs) + cta_dur
TotalAllocated == RAdd(RAdd(hook_dur, RSum(bullet_durs)), cta_dur)

Within(a, b, tol) == RLeq(RAbs(RSub(a, b)), tol)

Tolerance == R(1, 50)

\* the sections the code counts: every bullet, the hook and the cta when non-empty
NumSections == num_sections

TotalWords == WordCount(hook) + WordCount(cta) + Len(Split(Join(<<SP>>, bullets)))

IsBlank(t) == ~Truthy(t) \/ StripEmpty(t)

\* C1 as stated: on the estimated path the allocated durations sum to the audio
\* duration within 0.02 s, for every script and every duration.
C1_SumMatchesAudio_AnyScript ==
    timing_path = "estimated" => Within(TotalAllocated, duration, Tolerance)

\* C1 amended: on the estimated path, for every script with at least one section
\* (a bullet, a non-empty hook or a non-empty cta), the allocated durations sum to
\* the audio duration within 0.02 s, in the word-count and the equal-split branch.
C1_SumMatchesAudio ==
    (timing_path = "estimated" /\ NumSections >= 1)
        => Within(TotalAllocated, duration, Tolerance)

\* the word-count branch ran with a section floored at 1 s and a correction applied
C1_Witness ==
    /\ timing_path = "estimated"
    /\ TotalWords > 0
    /\ NumSections >= 3
    /\ RLt(CorrectionThreshold, RAbs(duration_diff))
    /\ \E i \in 1..Len(bullets) : bullet_durs[i] = MinScene /\ IsBlank(bullets[i])
    /\ Within(TotalAllocated, duration, Tolerance)

\* C2 as stated: in the word-count branch with at least two sections, after the floor
\* and the rounding correction every non-empty section lasts at least 1 s.
C2_EverySectionAtLeastOneSecond ==
    (timing_path = "estimated" /\ TotalWords > 0 /\ NumSections >= 2)
        => /\ Truthy(hook) => RLeq(MinScene, hook_dur)
           /\ \A i \in 1..Len(bullets) : Truthy(bullets[i]) => RLeq(MinScene, bullet_durs[i])
           /\ Truthy(cta) => RLeq(MinScene, cta_dur)

\* C3 as stated (for scripts that have a section): when every scene is placed, the
\* end of the timeline equals the audio duration within 0.02 s on the estimated path.
C3_TimelineEndsAtAudio ==
    (pc = "done" /\ timing_path = "estimated" /\ NumSections >= 1)
        => Within(final_timeline, duration, Tolerance)

HookPart == IF Truthy(hook) THEN hook_dur ELSE Zero

RECURSIVE PrefixSum(_, _)
\* the sum of the first k entries of a list of durations
PrefixSum(s, k) == IF k = 0 THEN Zero ELSE RAdd(PrefixSum(s, k - 1), s[k])

\* where the scene of bullet i starts when every earlier scene took its duration
StartOf(i) == RAdd(HookPart, PrefixSum(bullet_durs, i - 1))

ClipsOf(section, index) ==
    {k \in 1..Len(clips) : clips[k].section = section /\ clips[k].index = index}

\* C4 as stated: an empty hook (cta) has a final duration of exactly 0, gets no clip
\* and does not advance the timeline.
C4_EmptySectionIsZero ==
    timing_path = "estimated"
        => /\ ~Truthy(hook)
                => /\ hook_dur = Zero
                   /\ ClipsOf("hook", 0) = {}
                   /\ (pc = "bullets" /\ bullet_i = 1) => current_time = Zero
           /\ ~Truthy(cta)
                => /\ cta_dur = Zero
                   /\ ClipsOf("cta", 0) = {}
                   /\ pc \in {"verify", "done"}
                        => current_time = StartOf(Len(bullets) + 1)

BulletPlaced(i) ==
    \/ pc = "bullets" /\ i < bullet_i
    \/ pc \in {"verify", "done"}

\* C5: a blank bullet gets exactly one placeholder clip, at the current time and of
\* its allocated duration, and the timeline advances by that duration: every bullet
\* and the cta start where they start when all earlier scenes took their durations.
C5_BlankBulletKeepsTimeline ==
    /\ \A i \in 1..Len(bullets) :
          (BulletPlaced(i) /\ IsBlank(bullets[i]))
              => /\ Cardinality(ClipsOf("bullet", i)) = 1
                 /\ \A k \in ClipsOf("bullet", i) :
                       /\ clips[k].layer = "placeholder"
                       /\ clips[k].start = StartOf(i)
                       /\ clips[k].duration = bullet_durs[i]
    /\ \A k \in 1..Len(clips) :
          /\ clips[k].section = "bullet" => clips[k].start = StartOf(clips[k].index)
          /\ clips[k].section = "cta" => clips[k].start = StartOf(Len(bullets) + 1)
    /\ pc = "bullets" => current_time = StartOf(bullet_i)
    /\ pc \in {"verify", "done"}
          => current_time = RAdd(StartOf(Len(bullets) + 1),
                                 IF Truthy(cta) THEN cta_dur ELSE Zero)

\* a whitespace-only bullet was placed before a normal bullet and the cta
C5_Witness ==
    /\ pc = "done"
    /\ Truthy(cta)
    /\ \E i \in 1..Len(bullets) - 1 :
          /\ bullets[i] = <<SP>>
          /\ ~IsBlank(bullets[i + 1])
          /\ RLt(Zero, bullet_durs[i])
          /\ \E k \in ClipsOf("bullet", i) : clips[k].layer = "placeholder"

(* ----------------- generate_tts.py: sectional narration ----------------- *)

\* lengths (ms) a generated section file can have, and of a file left by an earlier run
ShortSectionMs == 1200
LongSectionMs == 4000
StaleFileMs == 700

SectionLengths == {ShortSectionMs, LongSectionMs}

\* silence inserted between two consecutive sections of voice.mp3
PauseMs == 250

\* sections = [("hook", hook)] + [(f"bullet_{i}", b) ...] + [("cta", cta)]
sections ==
    <<[section |-> "hook", index |-> 0, text |-> hook]>>
    \o [i \in 1..Len(bullets) |-> [section |-> "bullet", index |-> i, text |-> bullets[i]]]
    \o <<[section |-> "cta", index |-> 0, text |-> cta]>>

FileOf(files, s) ==
    IF s.section = "hook" THEN files.hook
    ELSE IF s.section = "cta" THEN files.cta
    ELSE files.bullets[s.index]

WriteFile(files, s, ms) ==
    IF s.section = "hook" THEN [files EXCEPT !.hook = ms]
    ELSE IF s.section = "cta" THEN [files EXCEPT !.cta = ms]
    ELSE [files EXCEPT !.bullets[s.index] = ms]

\* one iteration of "for name, text in sections" (lines 235-252): a blank section is
\* skipped, any other gets its own file, of a length the voice model decides
TtsSection ==
    /\ pc = "tts"
    /\ tts_i <= Len(sections)
    /\ LET s == sections[tts_i]
       IN  IF StripEmpty(s.text)
           THEN UNCHANGED <<section_files, section_paths>>
           ELSE \E ms \in SectionLengths :
                   /\ section_files' = WriteFile(section_files, s, ms)
                   /\ section_paths' = Append(section_paths, [section |-> s.section, index |-> s.index])
    /\ tts_i' = tts_i + 1
    /\ UNCHANGED <<pc, hook, bullets, cta, voice_ms, audio_readable, timing_path,
                   hook_dur, bullet_durs, cta_dur, duration_diff, clips, current_time,
                   bullet_i, final_timeline, wrap_vars, ext_vars>>

RECURSIVE CombinedMs(_, _, _)
\* lines 254-262: combined += part + silent(250 ms, or 0 after the last part)
CombinedMs(files, paths, i) ==
    IF i > Len(paths) THEN 0
    ELSE FileOf(files, paths[i]) + (IF i < Len(paths) THEN PauseMs ELSE 0)
         + CombinedMs(files, paths, i + 1)

\* lines 254-264: voice.mp3 is exported; create_video.py then runs on the same tmp
TtsCombine ==
    /\ pc = "tts"
    /\ tts_i > Len(sections)
    /\ voice_ms' = CombinedMs(section_files, section_paths, 1)
    /\ pc' = "timing"
    /\ UNCHANGED <<hook, bullets, cta, section_files, audio_readable, timing_path,
                   hook_dur, bullet_durs, cta_dur, duration_diff, clips, current_time,
                   bullet_i, final_timeline, tts_vars, wrap_vars, ext_vars>>

\* the section texts of the narration model: "" and one word
TtsTexts == {<<>>, WordsText(1)}

TtsBulletLists == UNION {[1..n -> TtsTexts] : n \in 0..MaxBullets}

\* generate_tts.py starts on a tmp directory that is clean or holds every section
\* file of an earlier run
InitTts ==
    /\ hook \in TtsTexts
    /\ bullets \in TtsBulletLists
    /\ cta \in TtsTexts
    /\ \E stale \in {Missing, StaleFileMs} :
          section_files = [hook |-> stale, cta |-> stale,
                           bullets |-> [i \in 1..Len(bullets) |-> stale]]
    /\ voice_ms = 0
    /\ audio_readable = TRUE
    /\ pc = "tts"
    /\ NoTimingYet
    /\ tts_i = 1
    /\ section_paths = <<>>
    /\ WrapIdle
    /\ ExtIdle

NextTts ==
    \/ TtsSection
    \/ TtsCombine
    \/ SelectTiming
    \/ PlaceHook
    \/ PlaceBullet
    \/ PlaceCta
    \/ VerifySync

SpecTts == InitTts /\ [][NextTts]_vars

(* ------------------ claims on the measured-duration path ---------------- *)

AllSectionsGenerated == Len(section_paths) = Len(bullets) + 2

\* C7 as stated: when the narration stage wrote one file per section and combined
\* them into voice.mp3, the durations of the measured path sum to the duration of
\* voice.mp3 (here: within 0.02 s).
C7_MeasuredSumMatchesVoice ==
    (pc = "done" /\ timing_path = "measured" /\ AllSectionsGenerated)
        => Within(TotalAllocated, duration, Tolerance)

(* ------------------ create_video.py: the caption fitter ----------------- *)

\* lengths (characters) of the words captions are built from
ShortWordLen == 4
MidWordLen == 12
LongWordLen == 25
HugeWordLen == 45
\* most words of a caption built from mixed words
MaxCaptionWords == 3
\* the number of words of the caption that is too tall at the largest font size
TallCaptionWords == 9
\* a second max_width smart_text_wrap is called with
NarrowWidth == 400

w == 1080
h == 1920
SAFE_ZONE_MARGIN == 130
TEXT_MAX_WIDTH == w - (2 * SAFE_ZONE_MARGIN)
\* font_size=64 of create_text_with_effects
DefaultFontSize == 64
MinFontSize == 32
FontStep == 4
MaxIterations == 10
\* len(wrapped_text) > 100 in the except branch, and the 8 it subtracts
LongTextChars == 100
ExceptStep == 8

\* max_height = h * 0.25
MaxHeight == h \div 4

RECURSIVE SplitLinesFrom(_, _)
\* str.split('\n'): the pieces between line breaks, empty pieces included, from index i on
SplitLinesFrom(s, i) ==
    IF \A j \in i..Len(s) : s[j] # NL
    THEN <<SubSeq(s, i, Len(s))>>
    ELSE <<SubSeq(s, i, First({j \in i..Len(s) : s[j] = NL}) - 1)>>
         \o SplitLinesFrom(s, First({j \in i..Len(s) : s[j] = NL}) + 1)

SplitLines(s) == SplitLinesFrom(s, 1)

\* draw.textbbox with the loaded font: every glyph advances 0.6 em (whole pixels)
GlyphPx(fs) == (fs * 6) \div 10

\* bbox[2] - bbox[0]
TextWidth(line, fs) == Len(line) * GlyphPx(fs)

\* bbox[3] - bbox[1]: one em for a line with ink, nothing for the empty string
TextHeight(line, fs) == IF line = <<>> THEN 0 ELSE fs

\* int(max_width / (font_size * 0.55))
max_chars_per_line(fs, mw) == (mw * 100) \div (fs * 55)

\* the mutant of LineFits: the line is measured before the word is appended
LineFitsCurrent(current_line, word, fs, mw, pixel) ==
    IF pixel
    THEN TextWidth(Join(<<SP>>, current_line), fs) <= mw
    ELSE Len(Join(<<SP>>, current_line)) <= max_chars_per_line(fs, mw)

\* test_line = ' '.join(current_line + [word]) fits: text_width <= max_width with the
\* font (line 599), len(test_line) <= max_chars_per_line without it (line 575)
LineFits(current_line, word, fs, mw, pixel) ==
    IF pixel
    THEN TextWidth(Join(<<SP>>, Append(current_line, word)), fs) <= mw
    ELSE Len(Join(<<SP>>, Append(current_line, word))) <= max_chars_per_line(fs, mw)

\* the mutant of StartLine: the word that did not fit is lost
DropWord(word) == <<>>

\* current_line = [word]
StartLine(word) == <<word>>

\* if current_line: lines.append(' '.join(current_line))
Flush(lines, current_line) ==
    IF current_line # <<>> THEN Append(lines, Join(<<SP>>, current_line)) ELSE lines

RECURSIVE WrapWords(_, _, _, _, _, _, _)
\* the loop "for word in words" (lines 573-583 and 594-612), from word i on
WrapWords(words, i, lines, current_line, fs, mw, pixel) ==
    IF i > Len(words) THEN Flush(lines, current_line)
    ELSE IF LineFits(current_line, words[i], fs, mw, pixel)
         THEN WrapWords(words, i + 1, lines, Append(current_line, words[i]), fs, mw, pixel)
         ELSE WrapWords(words, i + 1, Flush(lines, current_line), StartLine(words[i]),
                        fs, mw, pixel)

\* smart_text_wrap(text, font_size, max_width); pixel: the font loaded at line 562
smart_text_wrap(t, fs, mw, pixel) ==
    IF ~pixel /\ Len(Split(t)) <= 2
    THEN t \o <<NL>>
    ELSE Join(<<NL>>, WrapWords(Split(t), 1, <<>>, <<>>, fs, mw, pixel)) \o <<NL>>

RECURSIVE BlockHeight(_, _)
\* total_height += line_height over the lines
BlockHeight(lines, fs) ==
    IF lines = <<>> THEN 0 ELSE TextHeight(lines[1], fs) + BlockHeight(Tail(lines), fs)

RECURSIVE BlockWidth(_, _)
\* max_line_width = max(max_line_width, line_width) over the lines
BlockWidth(lines, fs) ==
    IF lines = <<>> THEN 0
    ELSE IF TextWidth(lines[1], fs) > BlockWidth(Tail(lines), fs)
         THEN TextWidth(lines[1], fs)
         ELSE BlockWidth(Tail(lines), fs)

\* the mutant of ShrinkNeeded: both bounds must be exceeded
ShrinkNeededBoth(th, mlw, mw) == th > MaxHeight /\ mlw > mw

\* total_height > max_height or max_line_width > max_width
ShrinkNeeded(th, mlw, mw) == th > MaxHeight \/ mlw > mw

\* lines 619-638 with the font loaded: wrap at the start size and measure the block
FitMeasure ==
    /\ pc = "caption"
    /\ font_ok
    /\ font_size' = DefaultFontSize
    /\ wrapped_text' = smart_text_wrap(caption_text, DefaultFontSize, TEXT_MAX_WIDTH, TRUE)
    /\ total_height' = BlockHeight(SplitLines(wrapped_text'), DefaultFontSize)
    /\ max_line_width' = BlockWidth(SplitLines(wrapped_text'), DefaultFontSize)
    /\ iterations' = 0
    /\ pc' = "fit_loop"
    /\ UNCHANGED <<caption_text, font_ok, wrap_args, wrap_out>>
    /\ UNCHANGED <<hook, bullets, cta, section_files, voice_ms, audio_readable, timing_path,
                   hook_dur, bullet_durs, cta_dur, duration_diff, clips, current_time,
                   bullet_i, final_timeline, tts_vars, ext_vars>>

\* lines 619-622 and 658-663: the font does not load, the except branch returns
FitExcept ==
    /\ pc = "caption"
    /\ ~font_ok
    /\ wrapped_text' = smart_text_wrap(caption_text, DefaultFontSize, TEXT_MAX_WIDTH, FALSE)
    /\ font_size' = IF Len(wrapped_text') > LongTextChars
                    THEN (IF DefaultFontSize - ExceptStep < MinFontSize
                          THEN MinFontSize ELSE DefaultFontSize - ExceptStep)
                    ELSE DefaultFontSize
    /\ pc' = "fit_returned"
    /\ UNCHANGED <<caption_text, font_ok, wrap_args, wrap_out, total_height, max_line_width,
                   iterations>>
    /\ UNCHANGED <<hook, bullets, cta, section_files, voice_ms, audio_readable, timing_path,
                   hook_dur, bullet_durs, cta_dur, duration_diff, clips, current_time,
                   bullet_i, final_timeline, tts_vars, ext_vars>>

\* one iteration of the while loop of lines 640-656
FitShrink ==
    /\ pc = "fit_loop"
    /\ ShrinkNeeded(total_height, max_line_width, TEXT_MAX_WIDTH)
    /\ font_size > MinFontSize
    /\ iterations < MaxIterations
    /\ font_size' = font_size - FontStep
    /\ wrapped_text' = smart_text_wrap(caption_text, font_size', TEXT_MAX_WIDTH, TRUE)
    /\ total_height' = BlockHeight(SplitLines(wrapped_text'), font_size')
    /\ max_line_width' = BlockWidth(SplitLines(wrapped_text'), font_size')
    /\ iterations' = iterations + 1
    /\ UNCHANGED <<pc, caption_text, font_ok, wrap_args, wrap_out>>
    /\ UNCHANGED <<hook, bullets, cta, section_files, voice_ms, audio_readable, timing_path,
                   hook_dur, bullet_durs, cta_dur, duration_diff, clips, current_time,
                   bullet_i, final_timeline, tts_vars, ext_vars>>

\* the while condition is false: line 663 returns wrapped_text, font_size
FitReturn ==
    /\ pc = "fit_loop"
    /\ ~(/\ ShrinkNeeded(total_height, max_line_width, TEXT_MAX_WIDTH)
         /\ font_size > MinFontSize
         /\ iterations < MaxIterations)
    /\ pc' = "fit_returned"
    /\ UNCHANGED wrap_vars
    /\ UNCHANGED <<hook, bullets, cta, section_files, voice_ms, audio_readable, timing_path,
                   hook_dur, bullet_durs, cta_dur, duration_diff, clips, current_time,
                   bullet_i, final_timeline, tts_vars, ext_vars>>

\* the font sizes of the search: 64, 60, ..., 32
FitSizes ==
    {s \in {DefaultFontSize - FontStep * k : k \in 0..MaxIterations} : s >= MinFontSize}

WrapWidths == {TEXT_MAX_WIDTH, NarrowWidth}

\* a call smart_text_wrap(text, font_size, max_width) on its own
WrapCall ==
    /\ pc = "caption"
    /\ \E fs \in FitSizes, mw \in WrapWidths :
          /\ wrap_args' = [font_size |-> fs, max_width |-> mw]
          /\ wrap_out' = smart_text_wrap(caption_text, fs, mw, font_ok)
    /\ pc' = "wrapped"
    /\ UNCHANGED <<caption_text, font_ok, font_size, wrapped_text, total_height,
                   max_line_width, iterations>>
    /\ UNCHANGED <<hook, bullets, cta, section_files, voice_ms, audio_readable, timing_path,
                   hook_dur, bullet_durs, cta_dur, duration_diff, clips, current_time,
                   bullet_i, final_timeline, tts_vars, ext_vars>>

CaptionWords ==
    {Repeat("a", ShortWordLen), Repeat("b", MidWordLen), Repeat("c", LongWordLen),
     Repeat("d", HugeWordLen)}

WordLists == UNION {[1..n -> CaptionWords] : n \in 0..MaxCaptionWords}

\* captions: up to MaxCaptionWords words separated by one or by two spaces, and one
\* caption of TallCaptionWords mid-length words
CaptionTexts ==
    {Join(sep, ws) : ws \in WordLists, sep \in {<<SP>>, <<SP, SP>>}}
    \cup {Join(<<SP>>, [k \in 1..TallCaptionWords |-> Repeat("b", MidWordLen)])}

\* the caption fitter called on a text, with or without a loadable font
InitWrap ==
    /\ caption_text \in CaptionTexts
    /\ font_ok \in BOOLEAN
    /\ pc = "caption"
    /\ wrap_args = [font_size |-> 0, max_width |-> 0]
    /\ wrap_out = <<>>
    /\ font_size = 0
    /\ wrapped_text = <<>>
    /\ total_height = 0
    /\ max_line_width = 0
    /\ iterations = 0
    /\ hook = <<>>
    /\ bullets = <<>>
    /\ cta = <<>>
    /\ section_files = [hook |-> Missing, cta |-> Missing, bullets |-> <<>>]
    /\ voice_ms = 0
    /\ audio_readable = TRUE
    /\ NoTimingYet
    /\ tts_i = 0
    /\ section_paths = <<>>
    /\ ExtIdle

NextWrap == WrapCall \/ FitMeasure \/ FitExcept \/ FitShrink \/ FitReturn

SpecWrap == InitWrap /\ [][NextWrap]_vars

(* ------------------------- claims: caption fitter ------------------------ *)

\* the words of the lines of a wrapped text, read in order
WordsOfLines(out) == Split(Join(<<SP>>, SplitLines(out)))

\* C8: the lines smart_text_wrap returns, read in order and joined with single spaces,
\* have exactly the whitespace-separated words of the input, in order, with and without
\* the font; the same holds for every text the font-size search wraps
C8_WrapKeepsWords ==
    /\ pc = "wrapped" => WordsOfLines(wrap_out) = Split(caption_text)
    /\ pc \in {"fit_loop", "fit_returned"} => WordsOfLines(wrapped_text) = Split(caption_text)

\* a pixel-measured wrap that broke the text and left two words on one line
C8_Witness ==
    /\ pc = "wrapped"
    /\ font_ok
    /\ Len(SplitLines(wrap_out)) >= 3
    /\ \E k \in 1..Len(SplitLines(wrap_out)) : WordCount(SplitLines(wrap_out)[k]) >= 2

\* the line is wider than max_width: by its rendered width with the font, by the
\* average-character-width estimate font_size * 0.55 per character without it
LineTooWide(line, fs, mw, pixel) ==
    IF pixel THEN TextWidth(line, fs) > mw ELSE Len(line) * fs * 55 > mw * 100

LinesWithinWidth(lines, fs, mw, pixel) ==
    \A k \in 1..Len(lines) :
        /\ WordCount(lines[k]) > 1 => ~LineTooWide(lines[k], fs, mw, pixel)
        /\ LineTooWide(lines[k], fs, mw, pixel) =>
              /\ WordCount(lines[k]) = 1
              /\ LineTooWide(Split(lines[k])[1], fs, mw, pixel)
        /\ \A j \in 1..WordCount(lines[k]) :
              LineTooWide(Split(lines[k])[j], fs, mw, pixel) => WordCount(lines[k]) = 1

\* C9 as stated: in every output of smart_text_wrap a line of several words is within
\* max_width, and a line is wider only if it is one word that is wider by itself
C9_LinesWithinWidth_AnyPath ==
    pc = "wrapped" =>
        LinesWithinWidth(SplitLines(wrap_out), wrap_args.font_size, wrap_args.max_width,
                         font_ok)

\* C9 amended: the same, when the font loads or the text has more than two words (without
\* the font a text of at most two words is returned as it is, on one line)
C9_LinesWithinWidth ==
    (pc = "wrapped" /\ (font_ok \/ WordCount(caption_text) > 2)) =>
        LinesWithinWidth(SplitLines(wrap_out), wrap_args.font_size, wrap_args.max_width,
                         font_ok)

\* a wrap with a line of two words and a line made of one word wider than max_width
C9_Witness ==
    /\ pc = "wrapped"
    /\ font_ok
    /\ \E k \in 1..Len(SplitLines(wrap_out)) : WordCount(SplitLines(wrap_out)[k]) >= 2
    /\ \E k \in 1..Len(SplitLines(wrap_out)) :
          /\ WordCount(SplitLines(wrap_out)[k]) = 1
          /\ LineTooWide(SplitLines(wrap_out)[k], wrap_args.font_size, wrap_args.max_width,
                         TRUE)

\* the text wrapped at size fs is within 25% of the canvas height and within max_width
BlockFits(lines, fs, pixel) ==
    /\ BlockHeight(lines, fs) <= MaxHeight
    /\ \A k \in 1..Len(lines) : ~LineTooWide(lines[k], fs, TEXT_MAX_WIDTH, pixel)

FittingSizes(pixel) ==
    {s \in FitSizes :
        BlockFits(SplitLines(smart_text_wrap(caption_text, s, TEXT_MAX_WIDTH, pixel)), s, pixel)}

\* the largest size of 64, 60, ..., 32 at which the re-wrapped text fits, 32 if none
LargestFitting(good) ==
    IF good = {} THEN MinFontSize ELSE CHOOSE s \in good : \A u \in good : u <= s

\* C10 as stated: create_text_with_effects returns the largest fitting size of the
\* sequence, 32 if none fits, with the text wrapped at that size
C10_LargestFittingSize_AnyFont ==
    pc = "fit_returned" =>
        /\ font_size = LargestFitting(FittingSizes(font_ok))
        /\ wrapped_text = smart_text_wrap(caption_text, font_size, TEXT_MAX_WIDTH, font_ok)

\* C10 amended: that holds when the font loads; when it does not, the function returns
\* the text wrapped by character count at 64, with size 64, or 56 if that text is longer
\* than 100 characters
C10_LargestFittingSize ==
    pc = "fit_returned" =>
        IF font_ok
        THEN /\ font_size = LargestFitting(FittingSizes(TRUE))
             /\ wrapped_text = smart_text_wrap(caption_text, font_size, TEXT_MAX_WIDTH, TRUE)
        ELSE /\ wrapped_text =
                    smart_text_wrap(caption_text, DefaultFontSize, TEXT_MAX_WIDTH, FALSE)
             /\ font_size = IF Len(wrapped_text) > LongTextChars
                            THEN DefaultFontSize - ExceptStep ELSE DefaultFontSize

\* the search shrank a block that was too tall but not too wide and stopped above 32
C10_Witness ==
    /\ pc = "fit_returned"
    /\ font_ok
    /\ iterations > 0
    /\ font_size > MinFontSize
    /\ BlockWidth(SplitLines(smart_text_wrap(caption_text, DefaultFontSize, TEXT_MAX_WIDTH,
                                             TRUE)), DefaultFontSize) <= TEXT_MAX_WIDTH
    /\ total_height <= MaxHeight
    /\ max_line_width <= TEXT_MAX_WIDTH

(* ------------- create_video.py: the font-size search from any start ------------- *)

\* the largest starting font size create_text_with_effects is called with
MaxStartSize == 80

\* the font_size argument: every size from the minimum up
StartSizes == MinFontSize..MaxStartSize

\* lines 619-638 for a call create_text_with_effects(text, font_size=start): the font
\* loads, the text is wrapped at the start size and measured
FitMeasureFrom ==
    /\ pc = "caption"
    /\ font_ok
    /\ \E start \in StartSizes :
          /\ wrap_args' = [font_size |-> start, max_width |-> TEXT_MAX_WIDTH]
          /\ font_size' = start
          /\ wrapped_text' = smart_text_wrap(caption_text, start, TEXT_MAX_WIDTH, TRUE)
          /\ total_height' = BlockHeight(SplitLines(wrapped_text'), start)
          /\ max_line_width' = BlockWidth(SplitLines(wrapped_text'), start)
    /\ iterations' = 0
    /\ pc' = "fit_loop"
    /\ UNCHANGED <<caption_text, font_ok, wrap_out>>
    /\ UNCHANGED <<hook, bullets, cta, section_files, voice_ms, audio_readable, timing_path,
                   hook_dur, bullet_durs, cta_dur, duration_diff, clips, current_time,
                   bullet_i, final_timeline, tts_vars, ext_vars>>

\* lines 619-622 and 658-663 for a call with font_size=start: the font does not load
FitExceptFrom ==
    /\ pc = "caption"
    /\ ~font_ok
    /\ \E start \in StartSizes :
          /\ wrap_args' = [font_size |-> start, max_width |-> TEXT_MAX_WIDTH]
          /\ wrapped_text' = smart_text_wrap(caption_text, start, TEXT_MAX_WIDTH, FALSE)
          /\ font_size' = IF Len(wrapped_text') > LongTextChars
                          THEN (IF start - ExceptStep < MinFontSize
                                THEN MinFontSize ELSE start - ExceptStep)
                          ELSE start
    /\ pc' = "fit_returned"
    /\ UNCHANGED <<caption_text, font_ok, wrap_out, total_height, max_line_width,
                   iterations>>
    /\ UNCHANGED <<hook, bullets, cta, section_files, voice_ms, audio_readable, timing_path,
                   hook_dur, bullet_durs, cta_dur, duration_diff, clips, current_time,
                   bullet_i, final_timeline, tts_vars, ext_vars>>

\* the texts of the calls: up to two words, and the caption that is too tall
FitTexts ==
    {Join(<<SP>>, ws) : ws \in UNION {[1..n -> CaptionWords] : n \in 0..2}}
    \cup {Join(<<SP>>, [k \in 1..TallCaptionWords |-> Repeat("b", MidWordLen)])}

InitFit ==
    /\ caption_text \in FitTexts
    /\ font_ok \in BOOLEAN
    /\ pc = "caption"
    /\ wrap_args = [font_size |-> 0, max_width |-> 0]
    /\ wrap_out = <<>>
    /\ font_size = 0
    /\ wrapped_text = <<>>
    /\ total_height = 0
    /\ max_line_width = 0
    /\ iterations = 0
    /\ hook = <<>>
    /\ bullets = <<>>
    /\ cta = <<>>
    /\ section_files = [hook |-> Missing, cta |-> Missing, bullets |-> <<>>]
    /\ voice_ms = 0
    /\ audio_readable = TRUE
    /\ NoTimingYet
    /\ tts_i = 0
    /\ section_paths = <<>>
    /\ ExtIdle

NextFit == FitMeasureFrom \/ FitExceptFrom \/ FitShrink \/ FitReturn

SpecFit == InitFit /\ [][NextFit]_vars

\* C11: the search makes at most 10 shrink iterations, and the font size it returns is
\* not below the 32 px minimum and not above the starting size
C11_SearchBounded ==
    /\ iterations <= MaxIterations
    /\ pc = "fit_returned" =>
          /\ font_size >= MinFontSize
          /\ font_size <= wrap_args.font_size

(* -------------------- create_video.py: create_scene --------------------- *)

\* the rendered caption heights are the multiples of HeightStep up to MaxHeightSteps
HeightStep == 170
MaxHeightSteps == 9
\* the explicit position_y values are the multiples of PixelStep up to MaxPixelSteps
PixelStep == 475
MaxPixelSteps == 4

\* image_path and os.path.exists(image_path)
ImageUsable(path, on_disk) == path # "None" /\ path # "" /\ on_disk

\* ImageClip(image_path).resized(height=h).with_duration(duration).with_start(start_time)
ImageClip(d, st) == [layer |-> "background", kind |-> "image", duration |-> d, start |-> st]

\* the mutant of ColorClip: the fallback clip is left at offset 0
ColorClipAtZero(d, st) ==
    [layer |-> "background", kind |-> "color", duration |-> d, start |-> Zero]

\* ColorClip(size=(w, h), color=color_fallback, duration=duration).with_start(start_time)
ColorClip(d, st) == [layer |-> "background", kind |-> "color", duration |-> d, start |-> st]

\* max(35, int(font_size * 0.6))
descender_padding(fs) == IF (fs * 6) \div 10 > 35 THEN (fs * 6) \div 10 ELSE 35

bottom_safe_zone == SAFE_ZONE_MARGIN + 180

bottom_limit(fs) == h - bottom_safe_zone - descender_padding(fs)

top_limit == SAFE_ZONE_MARGIN + 80

\* the mutant of InitialPosY: the top anchor is offset by the position of the caption
\* placed before
InitialPosYAfterLast(py, th, fs) ==
    IF py.policy = "center" THEN (h - th) \div 2
    ELSE IF py.policy = "top" THEN SAFE_ZONE_MARGIN + 80 + pos_y
    ELSE IF py.policy = "bottom" THEN h - th - bottom_safe_zone - descender_padding(fs)
    ELSE LET low == IF py.pixel > SAFE_ZONE_MARGIN + 80 THEN py.pixel
                    ELSE SAFE_ZONE_MARGIN + 80
             high == h - th - bottom_safe_zone - descender_padding(fs)
         IN  IF low < high THEN low ELSE high

\* lines 710-718: the position the policy asks for
InitialPosY(py, th, fs) ==
    IF py.policy = "center" THEN (h - th) \div 2
    ELSE IF py.policy = "top" THEN SAFE_ZONE_MARGIN + 80
    ELSE IF py.policy = "bottom" THEN h - th - bottom_safe_zone - descender_padding(fs)
    ELSE LET low == IF py.pixel > SAFE_ZONE_MARGIN + 80 THEN py.pixel
                    ELSE SAFE_ZONE_MARGIN + 80
             high == h - th - bottom_safe_zone - descender_padding(fs)
         IN  IF low < high THEN low ELSE high

\* the mutant of ClampBottom: the block is left where the policy put it
NoClampBottom(p, th, fs) == p

\* lines 723-724
ClampBottom(p, th, fs) == IF p + th > bottom_limit(fs) THEN bottom_limit(fs) - th ELSE p

\* lines 725-726
ClampTop(p) == IF p < top_limit THEN top_limit ELSE p

\* lines 667-683: the background layer; an empty text ends the call with that layer only
SceneBackground ==
    /\ pc = "scene"
    /\ scene_clips' = <<IF ImageUsable(image_path, image_on_disk)
                        THEN ImageClip(scene_duration, scene_start)
                        ELSE ColorClip(scene_duration, scene_start)>>
    /\ pc' = IF Truthy(caption_text) THEN "caption" ELSE "scene_done"
    /\ UNCHANGED <<image_path, image_on_disk, scene_duration, scene_start, position_y,
                   text_height, pos_y>>
    /\ UNCHANGED <<scene_frame, wrap_vars>>

\* lines 689-738: the caption is rendered at the fitted size, placed and appended
SceneText ==
    /\ pc = "fit_returned"
    /\ \E th \in {k * HeightStep : k \in 1..MaxHeightSteps} :
          /\ text_height' = th
          /\ pos_y' = ClampTop(ClampBottom(InitialPosY(position_y, th, font_size), th,
                                           font_size))
    /\ scene_clips' = Append(scene_clips,
                             [layer |-> "text", duration |-> scene_duration,
                              start |-> scene_start, pos_y |-> pos_y'])
    /\ pc' = "scene_done"
    /\ UNCHANGED <<image_path, image_on_disk, scene_duration, scene_start, position_y>>
    /\ UNCHANGED <<scene_frame, wrap_vars>>

ImagePaths == {"None", "", "tmp/scene_hook.jpg"}

PositionYs ==
    {[policy |-> p, pixel |-> 0] : p \in {"center", "top", "bottom"}}
    \cup {[policy |-> "pixel", pixel |-> k * PixelStep] : k \in 0..MaxPixelSteps}

\* no caption, a short one, one word that fits at no size, and one that is too tall at 64
SceneTexts ==
    {<<>>, WordsText(MaxWords), Repeat("d", HugeWordLen),
     Join(<<SP>>, [k \in 1..TallCaptionWords |-> Repeat("b", MidWordLen)])}

\* a call create_scene(image_path, text, duration, start_time, position_y); the font loads
InitScene ==
    /\ image_path \in ImagePaths
    /\ image_on_disk \in BOOLEAN
    /\ scene_duration \in {One, R(7, 2)}
    /\ scene_start \in {Zero, R(5, 2)}
    /\ position_y \in PositionYs
    /\ scene_clips = <<>>
    /\ text_height = 0
    /\ pos_y = 0
    /\ caption_text \in SceneTexts
    /\ font_ok = TRUE
    /\ pc = "scene"
    /\ wrap_args = [font_size |-> 0, max_width |-> 0]
    /\ wrap_out = <<>>
    /\ font_size = 0
    /\ wrapped_text = <<>>
    /\ total_height = 0
    /\ max_line_width = 0
    /\ iterations = 0
    /\ hook = <<>>
    /\ bullets = <<>>
    /\ cta = <<>>
    /\ section_files = [hook |-> Missing, cta |-> Missing, bullets |-> <<>>]
    /\ voice_ms = 0
    /\ audio_readable = TRUE
    /\ NoTimingYet
    /\ tts_i = 0
    /\ section_paths = <<>>
    /\ ImgIdle
    /\ GenIdle
    /\ HistIdle
    /\ UplIdle
    /\ PipeIdle

NextScene == SceneBackground \/ FitMeasure \/ FitShrink \/ FitReturn \/ SceneText

SpecScene == InitScene /\ [][NextScene]_vars

\* create_scene returned a caption layer
CaptionPlaced == pc = "scene_done" /\ Len(scene_clips) = 2

\* C12 as stated: for every policy and every caption height the caption block lies
\* between top_limit and bottom_limit
C12_CaptionInSafeZone_AnyHeight ==
    CaptionPlaced =>
        /\ pos_y >= top_limit
        /\ pos_y + text_height <= bottom_limit(font_size)

\* C12 amended: the block never starts above top_limit; it ends at or above
\* bottom_limit when it is not taller than the zone between the two limits, and a
\* taller block is placed at top_limit
C12_CaptionInSafeZone ==
    CaptionPlaced =>
        /\ pos_y >= top_limit
        /\ text_height <= bottom_limit(font_size) - top_limit =>
              pos_y + text_height <= bottom_limit(font_size)
        /\ text_height > bottom_limit(font_size) - top_limit => pos_y = top_limit

\* a centred block that the bottom clamp had to move up
C12_Witness ==
    /\ CaptionPlaced
    /\ position_y.policy = "center"
    /\ pos_y < (h - text_height) \div 2
    /\ pos_y > top_limit
    /\ pos_y + text_height = bottom_limit(font_size)

\* C14: with an image path that is None, empty or names no file, create_scene still
\* returns a background layer first: a solid-color clip with exactly the duration and
\* the start offset it was given, the same timing an image background gets
C14_ColorFallbackKeepsTiming ==
    pc # "scene" =>
        /\ Len(scene_clips) >= 1
        /\ scene_clips[1].layer = "background"
        /\ scene_clips[1].duration = scene_duration
        /\ scene_clips[1].start = scene_start
        /\ ~ImageUsable(image_path, image_on_disk) => scene_clips[1].kind = "color"

\* a scene built on a path that names no file, placed later than offset 0
C14_Witness ==
    /\ pc = "scene_done"
    /\ image_path = "tmp/scene_hook.jpg"
    /\ ~image_on_disk
    /\ scene_start # Zero
    /\ scene_clips[1] = ColorClip(scene_duration, scene_start)
    /\ Len(scene_clips) = 2

(* ---------------- create_video.py: scene image generation ---------------- *)

\* the body sizes (bytes) of the images the remote sources answer with
SmallImageBytes == 800
LargeImageBytes == 50000
\* the size of a saved 1080x1920 gradient
GradientBytes == 30000

\* os.path.getsize(result) > 1000 (line 321), os.path.getsize(img) < 1000 (line 410)
MinImageBytes == 1000
\* the models list of generate_image_huggingface (lines 98-104)
HFModels == 5
\* photo_ids[:4]
PexelsPhotos == 4
\* stop_after_attempt(3)
RetryAttempts == 3

\* os.path.join(TMP, "scene_hook.jpg" / f"scene_bullet_{i}.jpg" / "scene_cta.jpg")
ScenePath(k) == [kind |-> "scene", index |-> k]

\* os.path.join(TMP, f"scene_fallback_{i}.jpg")
FallbackPath(i) == [kind |-> "fallback", index |-> i]

\* the file generate_image_reliable is called for
filepath == ScenePath(img_scene)

\* a response: HTTP 200 with an image body of some size, an error status, or a timeout
Responses ==
    {[status |-> "200", bytes |-> b] : b \in {SmallImageBytes, LargeImageBytes}}
    \cup {[status |-> st, bytes |-> 0] : st \in {"402", "429", "503", "500", "timeout"}}

\* with open(filepath, "wb") as f: f.write(response.content)
WriteImage(d, path, bytes) == [d EXCEPT ![path] = bytes]

\* result and os.path.exists(result) and os.path.getsize(result) > 1000
Validated(d, result) ==
    result # NoPath /\ d[result] # Missing /\ d[result] > MinImageBytes

\* what a request of the chain leaves alone
img_call == <<hf_token, img_scene, retry_attempt, scene_images>>

\* lines 134-179 and 318-325: one request to Pollinations; what it writes is returned
\* if it validates, everything else passes to Hugging Face
Pollinations ==
    /\ pc = "pollinations"
    /\ \E resp \in Responses :
          /\ last_status' = resp
          /\ disk' = IF resp.status = "200" THEN WriteImage(disk, filepath, resp.bytes)
                     ELSE disk
          /\ pc' = IF resp.status = "200" /\ Validated(disk', filepath)
                   THEN "img_returned" ELSE "huggingface"
          /\ img_result' = IF resp.status = "200" /\ Validated(disk', filepath)
                           THEN filepath ELSE img_result
    /\ img_log' = Append(img_log, "Pollinations")
    /\ hf_model' = 1
    /\ UNCHANGED <<img_frame, img_call, pexels_i>>

\* lines 66-69: without HUGGINGFACE_API_KEY the provider raises before any request
HuggingFaceNoToken ==
    /\ pc = "huggingface"
    /\ ~hf_token
    /\ pc' = "unsplash"
    /\ UNCHANGED <<img_frame, img_call, disk, img_log, last_status, hf_model, pexels_i,
                   img_result>>

\* lines 106-127: the request for one model. A body of more than 1000 bytes is written
\* and returned; a timeout raises out of the provider; any other answer moves on to the
\* next model, and after the last model the provider raises
HuggingFace ==
    /\ pc = "huggingface"
    /\ hf_token
    /\ \E resp \in Responses :
          /\ last_status' = resp
          /\ IF resp.status = "200" /\ resp.bytes > MinImageBytes
             THEN /\ disk' = WriteImage(disk, filepath, resp.bytes)
                  /\ img_result' = filepath
                  /\ pc' = "img_returned"
                  /\ hf_model' = hf_model
             ELSE /\ UNCHANGED <<disk, img_result>>
                  /\ pc' = IF resp.status = "timeout" \/ hf_model = HFModels
                           THEN "unsplash" ELSE "huggingface"
                  /\ hf_model' = IF resp.status = "timeout" \/ hf_model = HFModels
                                 THEN hf_model ELSE hf_model + 1
    /\ img_log' = Append(img_log, "Hugging Face")
    /\ UNCHANGED <<img_frame, img_call, pexels_i>>

\* lines 218-232 and 328-333: Unsplash. An image answer is written and returned to
\* generate_image_reliable, which falls through to the gradient if it does not validate
Unsplash ==
    /\ pc = "unsplash"
    /\ \E resp \in Responses :
          /\ last_status' = resp
          /\ disk' = IF resp.status = "200" THEN WriteImage(disk, filepath, resp.bytes)
                     ELSE disk
          /\ pc' = IF resp.status # "200" THEN "pexels"
                   ELSE IF Validated(disk', filepath) THEN "img_returned" ELSE "gradient"
          /\ img_result' = IF resp.status = "200" /\ Validated(disk', filepath)
                           THEN filepath ELSE img_result
    /\ img_log' = Append(img_log, "Unsplash")
    /\ pexels_i' = 1
    /\ UNCHANGED <<img_frame, img_call, hf_model>>

\* lines 258-281: one Pexels photo. An image answer is written, resized to the canvas
\* and returned; if PIL cannot read it, or the request times out, the except branch
\* passes to Picsum; an error status moves on to the next photo
Pexels ==
    /\ pc = "pexels"
    /\ \E resp \in Responses, decodable \in BOOLEAN :
          /\ last_status' = resp
          /\ IF resp.status = "200"
             THEN /\ disk' = WriteImage(disk, filepath,
                                        IF decodable THEN LargeImageBytes ELSE resp.bytes)
                  /\ pc' = IF ~decodable THEN "picsum"
                           ELSE IF Validated(disk', filepath) THEN "img_returned"
                           ELSE "gradient"
                  /\ img_result' = IF decodable /\ Validated(disk', filepath)
                                   THEN filepath ELSE img_result
                  /\ pexels_i' = pexels_i
             ELSE /\ UNCHANGED <<disk, img_result>>
                  /\ pc' = IF resp.status = "timeout" \/ pexels_i = PexelsPhotos
                           THEN "picsum" ELSE "pexels"
                  /\ pexels_i' = IF resp.status = "timeout" \/ pexels_i = PexelsPhotos
                                 THEN pexels_i ELSE pexels_i + 1
    /\ img_log' = Append(img_log, "Pexels")
    /\ UNCHANGED <<img_frame, img_call, hf_model>>

\* lines 286-303 and 328-333: Picsum; None is returned on every failure
Picsum ==
    /\ pc = "picsum"
    /\ \E resp \in Responses :
          /\ last_status' = resp
          /\ disk' = IF resp.status = "200" THEN WriteImage(disk, filepath, resp.bytes)
                     ELSE disk
          /\ pc' = IF resp.status = "200" /\ Validated(disk', filepath)
                   THEN "img_returned" ELSE "gradient"
          /\ img_result' = IF resp.status = "200" /\ Validated(disk', filepath)
                           THEN filepath ELSE img_result
    /\ img_log' = Append(img_log, "Picsum")
    /\ UNCHANGED <<img_frame, img_call, hf_model, pexels_i>>

\* lines 335-357: the gradient is drawn, saved and returned
Gradient ==
    /\ pc = "gradient"
    /\ disk' = WriteImage(disk, filepath, GradientBytes)
    /\ img_result' = filepath
    /\ pc' = "img_returned"
    /\ UNCHANGED <<img_frame, img_call, img_log, last_status, hf_model, pexels_i>>

\* img.save raises: tenacity runs generate_image_reliable again, and after the third
\* attempt the error reaches the except branch of lines 403-405
GradientRaises ==
    /\ pc = "gradient"
    /\ IF retry_attempt < RetryAttempts
       THEN /\ retry_attempt' = retry_attempt + 1
            /\ img_log' = <<>>
            /\ pc' = "pollinations"
            /\ UNCHANGED scene_images
       ELSE /\ scene_images' = [i \in 1..(Len(bullets) + 2) |-> NoPath]
            /\ pc' = "validate"
            /\ UNCHANGED <<retry_attempt, img_log>>
    /\ UNCHANGED <<img_frame, disk, hf_token, img_scene, last_status, hf_model, pexels_i,
                   img_result>>

\* lines 376, 388, 400: scene_images.append(...), then the call for the next scene
AppendImage ==
    /\ pc = "img_returned"
    /\ scene_images' = Append(scene_images, img_result)
    /\ IF img_scene = Len(bullets) + 1
       THEN pc' = "validate" /\ UNCHANGED <<img_scene, img_log, retry_attempt>>
       ELSE /\ pc' = "pollinations"
            /\ img_scene' = img_scene + 1
            /\ img_log' = <<>>
            /\ retry_attempt' = 1
    /\ UNCHANGED <<img_frame, disk, hf_token, last_status, hf_model, pexels_i, img_result>>

\* the mutant of Invalid: no entry is replaced
InvalidNever(d, img) == FALSE

\* not img or not os.path.exists(img) or os.path.getsize(img) < 1000
Invalid(d, img) ==
    IF img = NoPath THEN TRUE ELSE d[img] = Missing \/ d[img] < MinImageBytes

\* lines 408-436: every invalid entry is replaced by a saved gradient
Validate ==
    /\ pc = "validate"
    /\ scene_images' = [i \in 1..Len(scene_images) |->
                           IF Invalid(disk, scene_images[i]) THEN FallbackPath(i - 1)
                           ELSE scene_images[i]]
    /\ disk' = [p \in DOMAIN disk |->
                   IF /\ p.kind = "fallback"
                      /\ p.index + 1 <= Len(scene_images)
                      /\ Invalid(disk, scene_images[p.index + 1])
                   THEN GradientBytes ELSE disk[p]]
    /\ pc' = "images_done"
    /\ UNCHANGED <<img_frame, hf_token, img_scene, img_log, last_status, hf_model, pexels_i,
                   retry_attempt, img_result>>

\* fallback_img.save raises: nothing catches it and create_video.py ends
ValidateRaises ==
    /\ pc = "validate"
    /\ \E i \in 1..Len(scene_images) : Invalid(disk, scene_images[i])
    /\ pc' = "aborted"
    /\ UNCHANGED <<img_frame, img_vars>>

ImagePathsOnDisk ==
    {ScenePath(k) : k \in 0..(MaxBullets + 1)} \cup {FallbackPath(k) : k \in 0..(MaxBullets + 1)}

\* create_video.py at line 363: the script is loaded and tmp/ holds no image
InitImages ==
    /\ bullets \in {[i \in 1..n |-> WordsText(1)] : n \in 0..MaxBullets}
    /\ hf_token \in BOOLEAN
    /\ disk = [p \in ImagePathsOnDisk |-> Missing]
    /\ img_scene = 0
    /\ img_log = <<>>
    /\ last_status = [status |-> "none", bytes |-> 0]
    /\ hf_model = 1
    /\ pexels_i = 1
    /\ retry_attempt = 1
    /\ img_result = NoPath
    /\ scene_images = <<>>
    /\ pc = "pollinations"
    /\ hook = WordsText(1)
    /\ cta = WordsText(1)
    /\ section_files = [hook |-> Missing, cta |-> Missing,
                        bullets |-> [i \in 1..Len(bullets) |-> Missing]]
    /\ voice_ms = 0
    /\ audio_readable = TRUE
    /\ NoTimingYet
    /\ tts_i = 0
    /\ section_paths = <<>>
    /\ WrapIdle
    /\ SceneIdle
    /\ GenIdle
    /\ HistIdle
    /\ UplIdle
    /\ PipeIdle

NextImages ==
    \/ Pollinations \/ HuggingFaceNoToken \/ HuggingFace \/ Unsplash \/ Pexels \/ Picsum
    \/ Gradient \/ GradientRaises \/ AppendImage \/ Validate \/ ValidateRaises

SpecImages == InitImages /\ [][NextImages]_vars

(* ---------------------- claims: scene images ----------------------------- *)

\* C13: when validation is done scene_images has len(bullets) + 2 entries and each is
\* the path of a file that exists and has at least 1000 bytes
C13_EverySceneHasImage ==
    pc = "images_done" =>
        /\ Len(scene_images) = Len(bullets) + 2
        /\ \A i \in 1..Len(scene_images) :
              /\ scene_images[i] # NoPath
              /\ disk[scene_images[i]] # Missing
              /\ disk[scene_images[i]] >= MinImageBytes

\* image generation raised after an undersized image had been written for the hook:
\* every scene got its gradient
C13_Witness ==
    /\ pc = "images_done"
    /\ Len(bullets) >= 1
    /\ disk[ScenePath(0)] = SmallImageBytes
    /\ \A i \in 1..Len(scene_images) : scene_images[i] = FallbackPath(i - 1)

\* the place of a source in the chain
Rank(source) ==
    CASE source = "Pollinations" -> 1
      [] source = "Hugging Face" -> 2
      [] source = "Unsplash" -> 3
      [] source = "Pexels" -> 4
      [] source = "Picsum" -> 5

Requested == {img_log[i] : i \in 1..Len(img_log)}

\* C15: the sources are requested in chain order; the gradient is produced only after
\* every remote source was tried and failed (Hugging Face counts as failed without its
\* token); what is returned is the path of a written image
C15_ChainInOrder ==
    /\ \A i, j \in 1..Len(img_log) : i < j => Rank(img_log[i]) <= Rank(img_log[j])
    /\ pc = "gradient" =>
          /\ {"Pollinations", "Unsplash", "Pexels", "Picsum"} \subseteq Requested
          /\ hf_token => "Hugging Face" \in Requested
    /\ pc = "img_returned" => img_result # NoPath /\ disk[img_result] # Missing

\* the source the last request went to, and how often it was requested so far
LastSource(log) == log[Len(log)]

TimesRequested(log, source) == Cardinality({i \in 1..Len(log) : log[i] = source})

\* C16: after a transient error (429, 503, timeout) on the first request to a provider
\* the next thing the chain does is another request to that provider; after a 402 the
\* next request goes to another provider
C16_TransientRetried ==
    [][(img_log # <<>> /\ pc \in {"huggingface", "unsplash", "pexels", "picsum", "gradient"}) =>
          /\ (/\ last_status.status \in {"429", "503", "timeout"}
              /\ TimesRequested(img_log, LastSource(img_log)) = 1) =>
                 /\ Len(img_log') = Len(img_log) + 1
                 /\ LastSource(img_log') = LastSource(img_log)
          /\ (last_status.status = "402" /\ Len(img_log') = Len(img_log) + 1) =>
                 LastSource(img_log') # LastSource(img_log)]_vars

(* ------------- generate_trending_and_script.py: script generation ------------- *)

\* the number of runs of the stage that are followed
MaxRuns == 3

max_attempts == 5
\* history['topics'][-100:] and history[-100:]
HistoryCap == 100

required_fields == {"title", "topic", "hook", "bullets", "cta"}

\* the mutant of KeepLast: list[:n]
KeepFirst(list, n) == IF Len(list) <= n THEN list ELSE SubSeq(list, 1, n)

\* list[-n:]
KeepLast(list, n) == IF Len(list) <= n THEN list ELSE SubSeq(list, Len(list) - n + 1, Len(list))

\* save_to_history(topic, script_hash, title) on the file: load, append, keep the last
\* 100, write
save_to_history(file, topic, script_hash, title, date) ==
    KeepLast(Append(file, [topic |-> topic, title |-> title, hash |-> script_hash,
                           date |-> date]),
             HistoryCap)

\* is_similar_topic(new_title, previous_titles): the Jaccard similarity of the word sets
\* exceeds 0.6 / (1 + idx * 0.02), idx counted back from the newest title
is_similar_topic(new_words, previous_titles) ==
    \E idx \in 0..(Len(previous_titles) - 1) :
        /\ Cardinality(new_words \cup previous_titles[Len(previous_titles) - idx]) > 0
        /\ Cardinality(new_words \cap previous_titles[Len(previous_titles) - idx]) * (50 + idx)
               > 30 * Cardinality(new_words \cup previous_titles[Len(previous_titles) - idx])

\* the titles (as word sets) of the scripts the model may answer with; the second is
\* similar to the first
ScriptTitles ==
    [s1 |-> {"regrow", "basil", "cuttings"},
     s2 |-> {"regrow", "basil", "cuttings", "fast"},
     s3 |-> {"compost", "tea"}]

\* what an attempt gets: an API error, text without JSON, or a JSON script whose content
\* (and so its md5 hash) is identified by id
LLMResponses ==
    {[kind |-> k, fields |-> {}, bullets |-> 0, on_trend |-> FALSE, id |-> "none",
      title |-> {}] : k \in {"error", "no_json"}}
    \cup {[kind |-> "json", fields |-> f, bullets |-> b, on_trend |-> t, id |-> i,
           title |-> ScriptTitles[i]] :
             f \in {required_fields, required_fields \ {"cta"}}, b \in {2, 3},
             t \in BOOLEAN, i \in DOMAIN ScriptTitles}

\* data = json.loads(json_text)
ScriptOf(resp) ==
    [fields |-> resp.fields, bullets |-> resp.bullets, id |-> resp.id, title |-> resp.title]

\* lines 547-570
FallbackScript ==
    [fields |-> required_fields, bullets |-> 3, id |-> "fallback",
     title |-> {"regrow", "green", "onions", "forever", "from", "grocery", "store", "scraps"}]

\* the mutant of Passes: the bullets check of line 521 is left out
PassesWithoutBullets(resp, hist) ==
    /\ resp.kind = "json"
    /\ required_fields \subseteq resp.fields
    /\ resp.on_trend
    /\ resp.id \notin {hist[i].hash : i \in 1..Len(hist)}
    /\ ~is_similar_topic(resp.title, [i \in 1..Len(hist) |-> hist[i].title])

\* lines 456-532: the attempt raises nowhere
Passes(resp, hist) ==
    /\ resp.kind = "json"
    /\ required_fields \subseteq resp.fields
    /\ resp.on_trend
    /\ resp.bullets >= 3
    /\ resp.id \notin {hist[i].hash : i \in 1..Len(hist)}
    /\ ~is_similar_topic(resp.title, [i \in 1..Len(hist) |-> hist[i].title])

\* one iteration of the while loop of lines 451-574: the try block and its except branch
Generate ==
    /\ pc = "generate"
    /\ attempt < max_attempts
    /\ attempt' = attempt + 1
    /\ \E resp \in LLMResponses :
          IF Passes(resp, history)
          THEN /\ data' = ScriptOf(resp)
               /\ history_file' = save_to_history(history_file, "gardening", resp.id,
                                                  resp.title, run)
               /\ pc' = "write"
          ELSE IF attempt' >= max_attempts
          THEN /\ data' = FallbackScript
               /\ history_file' = save_to_history(history_file, "gardening",
                                                  FallbackScript.id, FallbackScript.title,
                                                  run)
               /\ pc' = "write"
          ELSE /\ data' = IF resp.kind = "json" THEN ScriptOf(resp) ELSE data
               /\ UNCHANGED <<history_file, pc>>
    /\ UNCHANGED <<history, script_json, run, hist_vars, gen_frame>>

\* lines 576-581: json.dump(data, f) into tmp/script.json
WriteScript ==
    /\ pc = "write"
    /\ script_json' = data
    /\ pc' = "run_done"
    /\ UNCHANGED <<history_file, history, attempt, data, run, hist_vars, gen_frame>>

\* the next run of the stage: history = load_history() (line 203), attempt = 0
StartRun ==
    /\ pc = "run_done"
    /\ run < MaxRuns
    /\ run' = run + 1
    /\ history' = history_file
    /\ attempt' = 0
    /\ data' = NoScript
    /\ script_json' = NoScript
    /\ pc' = "generate"
    /\ UNCHANGED <<history_file, hist_vars, gen_frame>>

\* the first run, on an empty history
InitScript ==
    /\ history_file = <<>>
    /\ history = <<>>
    /\ attempt = 0
    /\ data = NoScript
    /\ script_json = NoScript
    /\ run = 1
    /\ pc = "generate"
    /\ hook = <<>>
    /\ bullets = <<>>
    /\ cta = <<>>
    /\ section_files = [hook |-> Missing, cta |-> Missing, bullets |-> <<>>]
    /\ voice_ms = 0
    /\ audio_readable = TRUE
    /\ NoTimingYet
    /\ tts_i = 0
    /\ section_paths = <<>>
    /\ WrapIdle
    /\ SceneIdle
    /\ ImgIdle
    /\ HistIdle
    /\ UplIdle
    /\ PipeIdle

NextScript == Generate \/ WriteScript \/ StartRun

SpecScript == InitScript /\ [][NextScript]_vars

\* the script has title, topic, hook, cta and at least 3 bullets
WellFormed(script) == required_fields \subseteq script.fields /\ script.bullets >= 3

\* C17: the loop makes at most 5 attempts; it ends at the first attempt that passes every
\* validation, or with the fallback after 5 failed attempts; the script.json written has
\* every required field and at least 3 bullets
C17_LoopEndsWithValidScript ==
    /\ attempt <= max_attempts
    /\ pc \in {"write", "run_done"} =>
          \/ data = FallbackScript /\ attempt = max_attempts
          \/ /\ data.id \in DOMAIN ScriptTitles
             /\ data.id \notin {history[i].hash : i \in 1..Len(history)}
             /\ ~is_similar_topic(data.title, [i \in 1..Len(history) |-> history[i].title])
    /\ pc \in {"write", "run_done"} => WellFormed(data)
    /\ pc = "run_done" => script_json = data /\ WellFormed(script_json)

\* the fifth attempt returned a script with two bullets and the fallback was written
C17_Witness ==
    /\ pc = "run_done"
    /\ attempt = max_attempts
    /\ script_json = FallbackScript
    /\ run = 1

\* C18: the script a run writes has a content hash that no record of the history had
\* when the run started
C18_NeverDuplicate ==
    pc = "run_done" => script_json.id \notin {history[i].hash : i \in 1..Len(history)}

(* ------------- the history files: content_history.json, upload_history.json ------------- *)

\* the number of records appended to each history file
MaxAppends == 102

\* the record of the k-th script saved
TopicRecord(k) == [topic |-> "gardening", title |-> {"title"}, hash |-> k, date |-> k]

\* upload_metadata of the k-th upload
upload_metadata(k) == [video_id |-> k, upload_date |-> k]

\* a run of the script stage calls save_to_history once (line 537 or line 574)
SaveToHistory ==
    /\ pc = "history"
    /\ Len(topics_appended) < MaxAppends
    /\ history_file' = save_to_history(history_file, "gardening",
                                       Len(topics_appended) + 1, {"title"},
                                       Len(topics_appended) + 1)
    /\ topics_appended' = Append(topics_appended, TopicRecord(Len(topics_appended) + 1))
    /\ clock' = clock + 1
    /\ UNCHANGED <<history, attempt, data, script_json, run, upload_log, uploads_appended,
                   pc, gen_frame>>

\* upload_youtube.py lines 238-250: load, append, keep the last 100, write
UploadAppend ==
    /\ pc = "history"
    /\ Len(uploads_appended) < MaxAppends
    /\ upload_log' = KeepLast(Append(upload_log, upload_metadata(Len(uploads_appended) + 1)),
                              HistoryCap)
    /\ uploads_appended' = Append(uploads_appended,
                                  upload_metadata(Len(uploads_appended) + 1))
    /\ clock' = clock + 1
    /\ UNCHANGED <<gen_vars, topics_appended, pc, gen_frame>>

\* neither history file exists yet
InitHistory ==
    /\ pc = "history"
    /\ GenIdle
    /\ HistIdle
    /\ hook = <<>>
    /\ bullets = <<>>
    /\ cta = <<>>
    /\ section_files = [hook |-> Missing, cta |-> Missing, bullets |-> <<>>]
    /\ voice_ms = 0
    /\ audio_readable = TRUE
    /\ NoTimingYet
    /\ tts_i = 0
    /\ section_paths = <<>>
    /\ WrapIdle
    /\ SceneIdle
    /\ ImgIdle
    /\ UplIdle
    /\ PipeIdle

NextHistory == SaveToHistory \/ UploadAppend

SpecHistory == InitHistory /\ [][NextHistory]_vars

\* stored holds at most 100 records: the most recently appended ones, unchanged and in
\* the order they were appended
HoldsMostRecent(stored, appended) ==
    /\ Len(stored) <= 100
    /\ Len(stored) = IF Len(appended) <= 100 THEN Len(appended) ELSE 100
    /\ \A i \in 1..Len(stored) : stored[i] = appended[Len(appended) - Len(stored) + i]

\* C19: after any sequence of appends each history file holds at most 100 records, the
\* most recently appended ones in append order
C19_HistoryKeepsLast100 ==
    /\ HoldsMostRecent(history_file, topics_appended)
    /\ HoldsMostRecent(upload_log, uploads_appended)

\* more than 100 records were appended to each file and each holds 100
C19_Witness ==
    /\ Len(topics_appended) > HistoryCap
    /\ Len(uploads_appended) > HistoryCap
    /\ Len(history_file) = HistoryCap
    /\ Len(upload_log) = HistoryCap

(* ------------- upload_multiplatform.py: uploads and exit status ------------- *)

\* the number of platforms enabled in a run
MaxPlatforms == 2

Platforms == {"youtube", "facebook", "instagram"}

\* attempts = 3 if platform == "facebook" else 1
attempts(platform) == IF platform = "facebook" THEN 3 ELSE 1

\* what uploader.upload(...) does: returns None (skipped, credentials missing), returns
\* a result with success True or False, or raises
UploadOutcomes == {"none", "success", "failure", "raises"}

\* the value uploader.upload returns
Returned(platform, outcome) ==
    IF outcome = "none"
    THEN [kind |-> "none", platform |-> platform, success |-> FALSE]
    ELSE [kind |-> "dict", platform |-> platform, success |-> (outcome = "success")]

\* the record the except branches append
FailedRecord(platform) == [kind |-> "dict", platform |-> platform, success |-> FALSE]

\* the mutant of print_summary: it returns True whatever the results
print_summary_true(res) == TRUE

\* print_summary, lines 463-498: False when there are results and none is successful
print_summary(res) ==
    ~(Cardinality({i \in 1..Len(res) : res[i].success}) = 0 /\ Len(res) > 0)

\* the next platform of the for loop, or the end of upload_to_all
NextPlatform ==
    /\ platform_i' = platform_i + 1
    /\ upload_attempt' = 0
    /\ pc' = IF platform_i + 1 > Len(enabled_platforms) THEN "summary" ELSE "uploading"

\* main, lines 503-520: script.json and the video must exist
LoadMetadata ==
    /\ pc = "main"
    /\ IF ~script_exists \/ ~video_exists
       THEN /\ exit_code' = 1
            /\ pc' = "exited"
            /\ UNCHANGED <<platform_i, upload_attempt>>
       ELSE /\ NextPlatform
            /\ UNCHANGED exit_code
    /\ UNCHANGED <<script_exists, video_exists, enabled_platforms, results, upload_result,
                   upl_frame>>

\* one pass of the retry loop of lines 381-402 in which upload returns
UploadReturns ==
    /\ pc = "uploading"
    /\ \E outcome \in UploadOutcomes \ {"raises"} :
          /\ upload_result' = Returned(enabled_platforms[platform_i], outcome)
          /\ results' = IF outcome = "none" THEN results
                        ELSE Append(results, upload_result')
    /\ NextPlatform
    /\ UNCHANGED <<script_exists, video_exists, enabled_platforms, exit_code, upl_frame>>

\* one pass of the retry loop in which upload raises: another attempt, or after the last
\* one a failed record; result is then read although this platform never assigned it, and
\* when it is unbound the outer except branch appends a second failed record
UploadRaises ==
    /\ pc = "uploading"
    /\ IF upload_attempt + 1 < attempts(enabled_platforms[platform_i])
       THEN /\ upload_attempt' = upload_attempt + 1
            /\ UNCHANGED <<results, platform_i, pc>>
       ELSE /\ results' =
                  IF upload_result = Unbound
                  THEN results \o <<FailedRecord(enabled_platforms[platform_i]),
                                    FailedRecord(enabled_platforms[platform_i])>>
                  ELSE Append(results, FailedRecord(enabled_platforms[platform_i]))
            /\ NextPlatform
    /\ UNCHANGED <<script_exists, video_exists, enabled_platforms, upload_result, exit_code,
                   upl_frame>>

\* main, lines 523-529: save_results, print_summary, sys.exit(1) unless it returned True
Summary ==
    /\ pc = "summary"
    /\ exit_code' = IF print_summary(results) THEN 0 ELSE 1
    /\ pc' = "exited"
    /\ UNCHANGED <<script_exists, video_exists, enabled_platforms, platform_i,
                   upload_attempt, results, upload_result, upl_frame>>

\* the lists get_enabled_platforms can return
PlatformLists ==
    {l \in UNION {[1..n -> Platforms] : n \in 0..MaxPlatforms} :
        \A i, j \in 1..Len(l) : i # j => l[i] # l[j]}

InitUpload ==
    /\ pc = "main"
    /\ script_exists \in BOOLEAN
    /\ video_exists \in BOOLEAN
    /\ enabled_platforms \in PlatformLists
    /\ platform_i = 0
    /\ upload_attempt = 0
    /\ results = <<>>
    /\ upload_result = Unbound
    /\ exit_code = Running
    /\ hook = <<>>
    /\ bullets = <<>>
    /\ cta = <<>>
    /\ section_files = [hook |-> Missing, cta |-> Missing, bullets |-> <<>>]
    /\ voice_ms = 0
    /\ audio_readable = TRUE
    /\ NoTimingYet
    /\ tts_i = 0
    /\ section_paths = <<>>
    /\ WrapIdle
    /\ SceneIdle
    /\ ImgIdle
    /\ GenIdle
    /\ HistIdle
    /\ PipeIdle

NextUpload == LoadMetadata \/ UploadReturns \/ UploadRaises \/ Summary

SpecUpload == InitUpload /\ [][NextUpload]_vars

\* C20: the process exits non-zero when script.json or the video is missing and when
\* there is at least one result and none is successful; it exits 0 when at least one
\* upload succeeded
C20_ExitStatus ==
    pc = "exited" =>
        /\ exit_code \in {0, 1}
        /\ (~script_exists \/ ~video_exists) => exit_code # 0
        /\ (Len(results) > 0 /\ \A i \in 1..Len(results) : ~results[i].success)
               => exit_code # 0
        /\ (\E i \in 1..Len(results) : results[i].success) => exit_code = 0

\* both inputs were present, every platform was attempted, and every upload failed
C20_Witness ==
    /\ pc = "exited"
    /\ script_exists
    /\ video_exists
    /\ Len(results) >= 2
    /\ \A i \in 1..Len(results) : ~results[i].success
    /\ exit_code = 1

(* ------------- create_video.py: the stage from script.json to the video ------------- *)

\* the number of bullets of the scripts the stage is run on
MaxStageBullets == 2

\* the mutant of os_path_exists: the file is never found
os_path_exists_never(f) == FALSE

\* os.path.exists(audio_path), the length of an absent file being Missing
os_path_exists(f) == f # Missing

\* lines 43-44: open(script.json) raises when the file is absent
LoadScript ==
    /\ pc = "load_script"
    /\ pc' = IF script_exists THEN "images" ELSE "aborted"
    /\ UNCHANGED <<core_vars, tts_vars, wrap_vars, ext_vars>>

\* lines 363-436: every scene gets the file generate_image_reliable returns, the image of
\* a provider or, for the scenes in failed, the gradient written after every provider
\* failed
SceneImages ==
    /\ pc = "images"
    /\ \E failed \in {{}, {0}, 0..(Len(bullets) + 1)} :
          disk' = [p \in {ScenePath(k) : k \in 0..(Len(bullets) + 1)} |->
                       IF p.index \in failed THEN GradientBytes ELSE LargeImageBytes]
    /\ scene_images' = [i \in 1..(Len(bullets) + 2) |-> ScenePath(i - 1)]
    /\ pc' = "audio"
    /\ UNCHANGED <<core_vars, tts_vars, wrap_vars, scene_vars, gen_vars, hist_vars, upl_vars,
                   pipe_vars, hf_token, img_scene, img_log, last_status, hf_model, pexels_i,
                   retry_attempt, img_result>>

\* lines 440-446: voice.mp3 must exist
CheckAudio ==
    /\ pc = "audio"
    /\ pc' = IF os_path_exists(voice_ms) THEN "timing" ELSE "aborted"
    /\ UNCHANGED <<core_vars, tts_vars, wrap_vars, ext_vars>>

\* lines 819-869: the clips are composed, the audio attached and the video written
WriteVideo ==
    /\ pc = "done"
    /\ video_exists' = TRUE
    /\ pc' = "written"
    /\ UNCHANGED <<core_vars, tts_vars, wrap_vars, scene_vars, img_vars, gen_vars, hist_vars,
                   pipe_vars, script_exists, enabled_platforms, platform_i, upload_attempt, results,
                   upload_result, exit_code>>

StageTexts == {<<>>, WordsText(1)}

\* no per-section file, every file, or the file of the hook only
SectionFileSets(n) ==
    {[hook |-> hf, cta |-> cf, bullets |-> [i \in 1..n |-> cf]] :
        hf \in {Missing, ShortSectionMs}, cf \in {Missing, ShortSectionMs}}

\* the stage started on a tmp directory that may lack script.json, voice.mp3 and any of
\* the per-section files
InitStage ==
    /\ pc = "load_script"
    /\ script_exists \in BOOLEAN
    /\ hook \in StageTexts
    /\ bullets \in UNION {[1..n -> StageTexts] : n \in 0..MaxStageBullets}
    /\ cta \in StageTexts
    /\ voice_ms \in {Missing, MidAudioMs}
    /\ audio_readable = TRUE
    /\ section_files \in SectionFileSets(Len(bullets))
    /\ NoTimingYet
    /\ tts_i = 0
    /\ section_paths = <<>>
    /\ WrapIdle
    /\ SceneIdle
    /\ ImgIdle
    /\ GenIdle
    /\ HistIdle
    /\ video_exists = FALSE
    /\ enabled_platforms = <<>>
    /\ platform_i = 0
    /\ upload_attempt = 0
    /\ results = <<>>
    /\ upload_result = Unbound
    /\ exit_code = Running
    /\ PipeIdle

NextStage ==
    \/ LoadScript
    \/ SceneImages
    \/ CheckAudio
    \/ SelectTiming
    \/ PlaceHook
    \/ PlaceBullet
    \/ PlaceCta
    \/ VerifySync
    \/ WriteVideo

SpecStage == InitStage /\ [][NextStage]_vars

\* the stage is past image generation
ImagesDone == pc \notin {"load_script", "images", "aborted"}

\* the stage is past the choice of the timing source
TimingChosen == pc \in {"hook", "bullets", "verify", "done", "written"}

GenerationStage == "generate_trending_and_script"

\* the stages that run after script generation
Stages ==
    {"generate_tts", "create_video", "generate_thumbnail", "upload_youtube",
     "upload_multiplatform", "upload_facebook", "manage_playlists"}

\* the stages that open script.json: generate_tts.py 352, create_video.py 43,
\* generate_thumbnail.py 73, upload_youtube.py 25, upload_multiplatform.py 510,
\* upload_facebook.py 457
ReadsScript(stage) == stage # "manage_playlists"

\* the mutant of Writes: generate_tts.py writes its metadata over script.json
WritesOverScript(stage) ==
    IF stage = "generate_tts"
    THEN {"voice.mp3", "hook.mp3", "bullet_i.mp3", "cta.mp3", "script.json"}
    ELSE IF stage = "create_video" THEN {"scene_i.jpg", "short.mp4"}
    ELSE IF stage = "generate_thumbnail" THEN {"thumb_bg.png", "thumbnail.png"}
    ELSE IF stage = "upload_youtube" THEN {"safe_title.mp4", "thumbnail.png",
                                           "upload_history.json"}
    ELSE IF stage = "upload_multiplatform" THEN {"short.mp4", "multiplatform_log.json"}
    ELSE IF stage = "upload_facebook" THEN {"facebook_upload_log.json"}
    ELSE {"playlist_config.json"}

\* the files of tmp/ each stage opens for writing, saves, exports, copies or renames to
Writes(stage) ==
    IF stage = "generate_tts"
    THEN {"voice.mp3", "hook.mp3", "bullet_i.mp3", "cta.mp3", "audio_metadata.json"}
    ELSE IF stage = "create_video" THEN {"scene_i.jpg", "short.mp4"}
    ELSE IF stage = "generate_thumbnail" THEN {"thumb_bg.png", "thumbnail.png"}
    ELSE IF stage = "upload_youtube" THEN {"safe_title.mp4", "thumbnail.png",
                                           "upload_history.json"}
    ELSE IF stage = "upload_multiplatform" THEN {"short.mp4", "multiplatform_log.json"}
    ELSE IF stage = "upload_facebook" THEN {"facebook_upload_log.json"}
    ELSE {"playlist_config.json"}

\* os.rename(VIDEO, video_output_path) of upload_youtube.py takes short.mp4 away
Removes(stage) == IF stage = "upload_youtube" THEN {"short.mp4"} ELSE {}

FileNames == {"script.json"} \cup UNION {Writes(st) : st \in Stages}

\* a file that does not exist
Absent == [writer |-> "none", script |-> NoScript]

\* one run of a stage: it loads script.json if it reads it, and leaves its files in tmp/
RunStage(stage) ==
    /\ stage_read' = IF ReadsScript(stage)
                     THEN [stage_read EXCEPT ![stage] = tmp_dir["script.json"].script]
                     ELSE stage_read
    /\ tmp_dir' = [f \in FileNames |->
                      IF f \in Writes(stage) THEN [writer |-> stage, script |-> NoScript]
                      ELSE IF f \in Removes(stage) THEN Absent
                      ELSE tmp_dir[f]]
    /\ UNCHANGED <<pc, dir_frame>>

RunTts ==
    /\ pc = "pipeline"
    /\ RunStage("generate_tts")

RunCreateVideo ==
    /\ pc = "pipeline"
    /\ RunStage("create_video")

RunThumbnail ==
    /\ pc = "pipeline"
    /\ RunStage("generate_thumbnail")

RunUploadYoutube ==
    /\ pc = "pipeline"
    /\ RunStage("upload_youtube")

RunUploadMultiplatform ==
    /\ pc = "pipeline"
    /\ RunStage("upload_multiplatform")

RunUploadFacebook ==
    /\ pc = "pipeline"
    /\ RunStage("upload_facebook")

RunManagePlaylists ==
    /\ pc = "pipeline"
    /\ RunStage("manage_playlists")

\* the scripts the generation stage can have written
WrittenScripts ==
    {FallbackScript}
    \cup {[fields |-> required_fields, bullets |-> b, id |-> i, title |-> ScriptTitles[i]] :
             b \in {3, 4}, i \in DOMAIN ScriptTitles}

\* the generation stage has just written script.json
InitPipeline ==
    /\ pc = "pipeline"
    /\ script_json \in WrittenScripts
    /\ data = script_json
    /\ history_file = <<>>
    /\ history = <<>>
    /\ attempt = 1
    /\ run = 1
    /\ tmp_dir = [f \in FileNames |->
                     IF f = "script.json"
                     THEN [writer |-> GenerationStage, script |-> script_json]
                     ELSE Absent]
    /\ stage_read = [st \in Stages |-> NoScript]
    /\ hook = <<>>
    /\ bullets = <<>>
    /\ cta = <<>>
    /\ section_files = [hook |-> Missing, cta |-> Missing, bullets |-> <<>>]
    /\ voice_ms = 0
    /\ audio_readable = TRUE
    /\ NoTimingYet
    /\ tts_i = 0
    /\ section_paths = <<>>
    /\ WrapIdle
    /\ SceneIdle
    /\ ImgIdle
    /\ HistIdle
    /\ UplIdle
    /\ DirAlone

NextPipeline ==
    \/ RunTts
    \/ RunCreateVideo
    \/ RunThumbnail
    \/ RunUploadYoutube
    \/ RunUploadMultiplatform
    \/ RunUploadFacebook
    \/ RunManagePlaylists

SpecPipeline == InitPipeline /\ [][NextPipeline]_vars

\* C22: whatever stages have run since generation, script.json is the file the generation
\* stage wrote, and the script every stage loaded is the one generation wrote
C22_ScriptNeverRewritten ==
    pc = "pipeline" =>
        /\ tmp_dir["script.json"] = [writer |-> GenerationStage, script |-> script_json]
        /\ \A st \in Stages : stage_read[st] \in {NoScript, script_json}

\* every stage has run, the uploader having renamed the video
C22_Witness ==
    /\ pc = "pipeline"
    /\ \A st \in Stages : ReadsScript(st) => stage_read[st] = script_json
    /\ \A f \in FileNames \ {"short.mp4"} : tmp_dir[f] # Absent
    /\ tmp_dir["short.mp4"] = Absent
    /\ script_json # FallbackScript

(* ------------- create_scene called twice with the same arguments ------------- *)

\* the first call, in which the caption is rendered
SceneTextFirst ==
    /\ scene_call = 1
    /\ SceneText

\* the first call has returned; create_scene is called again with the same arguments,
\* nothing on disk having changed
SceneAgain ==
    /\ pc = "scene_done"
    /\ scene_call = 1
    /\ first_clips' = scene_clips
    /\ scene_call' = 2
    /\ pc' = "scene"
    /\ UNCHANGED again_frame

\* lines 689-738 in the second call: the same text rendered at the same size has the
\* height it had in the first call
SceneTextAgain ==
    /\ pc = "fit_returned"
    /\ scene_call = 2
    /\ pos_y' = ClampTop(ClampBottom(InitialPosY(position_y, text_height, font_size),
                                     text_height, font_size))
    /\ scene_clips' = Append(scene_clips,
                             [layer |-> "text", duration |-> scene_duration,
                              start |-> scene_start, pos_y |-> pos_y'])
    /\ pc' = "scene_done"
    /\ UNCHANGED <<image_path, image_on_disk, scene_duration, scene_start, position_y,
                   text_height>>
    /\ UNCHANGED <<scene_frame, wrap_vars>>

InitSceneTwice ==
    /\ image_path \in ImagePaths
    /\ image_on_disk \in BOOLEAN
    /\ scene_duration \in {One, R(7, 2)}
    /\ scene_start \in {Zero, R(5, 2)}
    /\ position_y \in PositionYs
    /\ scene_clips = <<>>
    /\ text_height = 0
    /\ pos_y = 0
    /\ caption_text \in SceneTexts
    /\ font_ok = TRUE
    /\ pc = "scene"
    /\ wrap_args = [font_size |-> 0, max_width |-> 0]
    /\ wrap_out = <<>>
    /\ font_size = 0
    /\ wrapped_text = <<>>
    /\ total_height = 0
    /\ max_line_width = 0
    /\ iterations = 0
    /\ hook = <<>>
    /\ bullets = <<>>
    /\ cta = <<>>
    /\ section_files = [hook |-> Missing, cta |-> Missing, bullets |-> <<>>]
    /\ voice_ms = 0
    /\ audio_readable = TRUE
    /\ NoTimingYet
    /\ tts_i = 0
    /\ section_paths = <<>>
    /\ ImgIdle
    /\ GenIdle
    /\ HistIdle
    /\ UplIdle
    /\ scene_call = 1
    /\ first_clips = <<>>
    /\ AgainAlone

NextSceneTwice ==
    \/ SceneBackground
    \/ FitMeasure
    \/ FitShrink
    \/ FitReturn
    \/ SceneTextFirst
    \/ SceneAgain
    \/ SceneTextAgain

SpecSceneTwice == InitSceneTwice /\ [][NextSceneTwice]_vars

\* the vertical position of a layer: that of the caption, 0 for a background
LayerY(layer) == IF layer.layer = "text" THEN layer.pos_y ELSE 0

BeforeCorrection == WithCrossFade(Scaled(estimates, RDiv(duration, SumOf(estimates))))

\* lines 538-544 ran and changed a duration
CorrectionApplied ==
    /\ timing_path = "estimated"
    /\ SumOf(estimates) # Zero
    /\ RLt(CorrectionThreshold, RAbs(duration_diff))

\* the duration a section had before the correction
DurationBefore(section, index) ==
    IF section = "hook" THEN BeforeCorrection.hook
    ELSE IF section = "cta" THEN BeforeCorrection.cta
    ELSE BeforeCorrection.bullets[index]

\* C24: when the rounding correction is applied, the last scene of the rendered timeline
\* lasts its duration before the correction plus the whole correction, and every
\* earlier scene keeps the duration it had before the correction
C24_CorrectionInLastScene ==
    (pc = "done" /\ CorrectionApplied /\ clips # <<>>) =>
        /\ clips[Len(clips)].duration =
              RAdd(DurationBefore(clips[Len(clips)].section, clips[Len(clips)].index),
                   duration_diff)
        /\ \A i \in 1..Len(clips) :
              (clips[i].section # clips[Len(clips)].section
               \/ clips[i].index # clips[Len(clips)].index)
                 => clips[i].duration = DurationBefore(clips[i].section, clips[i].index)

(* ------------- upload_multiplatform.py: get_enabled_platforms ------------- *)

\* the priorities a configuration gives
MaxPriority == 3

\* config.get(platform, {}).get("priority", 99)
DefaultPriority == 99

\* the place of a platform name in string order
NameRank(p) == IF p = "facebook" THEN 1 ELSE IF p = "instagram" THEN 2 ELSE 3

\* p.strip().lower() on the parts PLATFORMS is given with
StripLower(part) ==
    IF part = "YOUTUBE" THEN "youtube"
    ELSE IF part = " facebook" THEN "facebook"
    ELSE part

\* uploader.enabled: config.get(platform, {}).get("enabled", False)
Enabled(cfg, p) == cfg[p].enabled

Priority(cfg, p) == IF cfg[p].priority = Missing THEN DefaultPriority ELSE cfg[p].priority

\* (priority, platform) tuples compare by priority, then by name
TupleLess(cfg, a, b) ==
    \/ Priority(cfg, a) < Priority(cfg, b)
    \/ Priority(cfg, a) = Priority(cfg, b) /\ NameRank(a) < NameRank(b)

\* enabled.sort(); [p for _, p in enabled]
SortedEnabled(cfg) ==
    LET en == {p \in Platforms : Enabled(cfg, p)}
    IN  [k \in 1..Cardinality(en) |->
            CHOOSE p \in en : Cardinality({q \in en : TupleLess(cfg, q, p)}) = k - 1]

\* [p for p in enabled_platforms if p in requested]
RECURSIVE KeepRequested(_, _)

KeepRequested(list, requested) ==
    IF list = <<>> THEN <<>>
    ELSE (IF Head(list) \in requested THEN <<Head(list)>> ELSE <<>>)
         \o KeepRequested(Tail(list), requested)

\* the mutant of FilterByInput: FORCE_ALL is not looked at
FilterIgnoringForce(list, parts, force) ==
    IF parts # <<>>
    THEN KeepRequested(list, {StripLower(parts[i]) : i \in 1..Len(parts)})
    ELSE list

\* lines 330-335: if input_platforms and not force_all
FilterByInput(list, parts, force) ==
    IF parts # <<>> /\ ~force
    THEN KeepRequested(list, {StripLower(parts[i]) : i \in 1..Len(parts)})
    ELSE list

\* get_enabled_platforms, lines 316-337
GetEnabledPlatforms ==
    /\ pc = "get_enabled_platforms"
    /\ enabled_platforms' = FilterByInput(SortedEnabled(platform_config), input_platforms,
                                          force_all)
    /\ pc' = "platforms_returned"
    /\ UNCHANGED <<script_exists, video_exists, platform_i, upload_attempt, results,
                   upload_result, exit_code, platform_config, input_platforms, force_all>>
    /\ UNCHANGED <<core_vars, tts_vars, wrap_vars, scene_vars, img_vars, gen_vars, hist_vars,
                   cfg_rest>>

\* the values of PLATFORMS: unset, one platform, two written with capitals and a space,
\* and a disabled-by-default platform with a name that is no platform
InputPlatformSets ==
    {<<>>, <<"youtube">>, <<"YOUTUBE", " facebook">>, <<"instagram", "vimeo">>}

InitPlatforms ==
    /\ pc = "get_enabled_platforms"
    /\ platform_config \in [Platforms -> [enabled : BOOLEAN,
                                          priority : (1..MaxPriority) \cup {Missing}]]
    /\ input_platforms \in InputPlatformSets
    /\ force_all \in BOOLEAN
    /\ hook = <<>>
    /\ bullets = <<>>
    /\ cta = <<>>
    /\ section_files = [hook |-> Missing, cta |-> Missing, bullets |-> <<>>]
    /\ voice_ms = 0
    /\ audio_readable = TRUE
    /\ NoTimingYet
    /\ tts_i = 0
    /\ section_paths = <<>>
    /\ WrapIdle
    /\ SceneIdle
    /\ ImgIdle
    /\ GenIdle
    /\ HistIdle
    /\ UplIdle
    /\ CfgAlone

NextPlatforms == GetEnabledPlatforms

SpecPlatforms == InitPlatforms /\ [][NextPlatforms]_vars

\* the platforms named in PLATFORMS, capitals and surrounding spaces aside
Named == {StripLower(input_platforms[i]) : i \in 1..Len(input_platforms)}

\* C25: the list returned holds each enabled platform once, in ascending priority,
\* restricted to those named in PLATFORMS when PLATFORMS is set and FORCE_ALL is not
\* true; a platform that is not enabled is never in it
C25_EnabledByPriority ==
    pc = "platforms_returned" =>
        /\ \A i \in 1..Len(enabled_platforms) : platform_config[enabled_platforms[i]].enabled
        /\ \A i, j \in 1..Len(enabled_platforms) :
              i < j => /\ enabled_platforms[i] # enabled_platforms[j]
                       /\ Priority(platform_config, enabled_platforms[i])
                              <= Priority(platform_config, enabled_platforms[j])
        /\ {enabled_platforms[i] : i \in 1..Len(enabled_platforms)} =
              IF input_platforms # <<>> /\ ~force_all
              THEN {p \in Platforms : platform_config[p].enabled /\ p \in Named}
              ELSE {p \in Platforms : platform_config[p].enabled}

\* FORCE_ALL is true and PLATFORMS names one platform only: all three enabled platforms
\* are returned, the one without a priority last
C25_Witness ==
    /\ pc = "platforms_returned"
    /\ force_all
    /\ input_platforms = <<"youtube">>
    /\ Len(enabled_platforms) = 3
    /\ platform_config[enabled_platforms[3]].priority = Missing
    /\ enabled_platforms[1] = "youtube"

(* ------------- manage_playlists.py: add_video_to_playlist ------------- *)

\* the videos of the upload history
MaxVideos == 3

\* maxResults=50
maxResults == 50

PlaylistIds == {"PL_vegetables", "PL_hacks"}

VideoIds == 1..MaxVideos

\* a playlist that already fills a page: 50 other videos, then video 1
FullPage == [k \in 1..maxResults |-> 100 + k] \o <<1>>

\* the mutant of existing_videos: only the first page is read
FirstPageOnly(items) ==
    {items[i] : i \in 1..(IF Len(items) < maxResults THEN Len(items) ELSE maxResults)}

RECURSIVE PagesFrom(_, _)

\* the ids of the page that starts at item start and of the pages the nextPageToken
\* chain leads to
PagesFrom(items, start) ==
    IF start > Len(items) THEN {}
    ELSE {items[i] : i \in start..(IF start + maxResults - 1 < Len(items)
                                   THEN start + maxResults - 1 ELSE Len(items))}
         \cup PagesFrom(items, start + maxResults)

\* lines 305-321: the ids collected from every page of playlistItems().list
existing_videos(items) == PagesFrom(items, 1)

\* what the API calls of one add_video_to_playlist do: both succeed, list raises, or
\* insert raises
ApiOutcomes == {"ok", "list_raises", "insert_raises"}

\* add_video_to_playlist(youtube, video_id, playlist_id), lines 300-342
AddVideoToPlaylist ==
    /\ pc = "playlists"
    /\ \E video_id \in VideoIds, playlist_id \in PlaylistIds, api \in ApiOutcomes :
          LET present == video_id \in existing_videos(playlist_items[playlist_id])
              insert == api = "ok" /\ ~present
          IN  /\ playlist_items' =
                    IF insert
                    THEN [playlist_items EXCEPT
                              ![playlist_id] = Append(playlist_items[playlist_id], video_id)]
                    ELSE playlist_items
              /\ add_call' = [video_id |-> video_id, playlist_id |-> playlist_id,
                              api |-> api,
                              present |-> \E i \in 1..Len(playlist_items[playlist_id]) :
                                             playlist_items[playlist_id][i] = video_id,
                              inserted |-> insert,
                              returned |-> insert]
    /\ UNCHANGED <<pc, pl_frame>>

NoCall ==
    [video_id |-> 0, playlist_id |-> "none", api |-> "none", present |-> FALSE,
     inserted |-> FALSE, returned |-> FALSE]

\* the channel's playlists before any call; one of them may already hold more than a page
InitPlaylists ==
    /\ pc = "playlists"
    /\ playlist_items \in [PlaylistIds -> {<<>>, FullPage}]
    /\ add_call = NoCall
    /\ hook = <<>>
    /\ bullets = <<>>
    /\ cta = <<>>
    /\ section_files = [hook |-> Missing, cta |-> Missing, bullets |-> <<>>]
    /\ voice_ms = 0
    /\ audio_readable = TRUE
    /\ NoTimingYet
    /\ tts_i = 0
    /\ section_paths = <<>>
    /\ WrapIdle
    /\ SceneIdle
    /\ ImgIdle
    /\ GenIdle
    /\ HistIdle
    /\ UplIdle
    /\ PlAlone

NextPlaylists == AddVideoToPlaylist

SpecPlaylists == InitPlaylists /\ [][NextPlaylists]_vars

\* C26: no playlist holds a video twice; a call inserts only a video that was not in the
\* playlist, and a call for a video already there returns False without inserting
C26_NoDuplicateInPlaylist ==
    pc = "playlists" =>
        /\ \A pl \in PlaylistIds : \A i, j \in 1..Len(playlist_items[pl]) :
              i # j => playlist_items[pl][i] # playlist_items[pl][j]
        /\ add_call.inserted => ~add_call.present
        /\ add_call.present => ~add_call.returned /\ ~add_call.inserted

\* a call for video 1, which is the 51st item of the playlist, on the second page
C26_Witness ==
    /\ pc = "playlists"
    /\ add_call.video_id = 1
    /\ add_call.api = "ok"
    /\ add_call.present
    /\ ~add_call.returned
    /\ Len(playlist_items[add_call.playlist_id]) > maxResults + 1

(* ------------- upload_multiplatform.py: one record per platform ------------- *)

\* the number of records upload_to_all appended for a platform
RecordsOf(platform) ==
    Cardinality({i \in 1..Len(results) : results[i].platform = platform})

\* the platform whose pass of the for loop ended last
LastProcessed == enabled_platforms[platform_i - 1]

\* C27: upload_to_all appends at most one record per enabled platform, and the result
\* whose outcome is reported after a platform's pass is that platform's own result
C27_OneRecordPerPlatform ==
    (pc \in {"uploading", "summary"} /\ platform_i > 1) =>
        /\ \A p \in Platforms : RecordsOf(p) <= 1
        /\ upload_result # Unbound => upload_result.platform = LastProcessed

(* ------------- upload_multiplatform.py: the video path of each platform ------------- *)

MP4 == <<".", "m", "p", "4">>

\* VIDEO = os.path.join(TMP, "short.mp4"), as a file name of tmp
ShortMp4 == <<"s", "h", "o", "r", "t">> \o MP4

\* a video left in tmp by an earlier run
OldMp4 == <<"o">> \o MP4

\* the characters \w matches, among those of the titles below
IsWordChar(c) == c \in {"A", "I", "a", "g", "h", "o", "r", "s", "t", "_"}

\* re.sub(r'[^\w\s-]', '', title)
KeepSafe(title) == SelectSeq(title, LAMBDA c : IsWordChar(c) \/ IsSpace(c) \/ c = "-")

\* str.strip()
str_strip(s) ==
    IF \A i \in 1..Len(s) : IsSpace(s[i]) THEN <<>>
    ELSE LET first == CHOOSE i \in 1..Len(s) :
                          ~IsSpace(s[i]) /\ \A j \in 1..(i - 1) : IsSpace(s[j])
             last == CHOOSE i \in 1..Len(s) :
                          ~IsSpace(s[i]) /\ \A j \in (i + 1)..Len(s) : IsSpace(s[j])
         IN  SubSeq(s, first, last)

\* str.replace(' ', '_')
ReplaceSpaces(s) == [i \in 1..Len(s) |-> IF s[i] = SP THEN "_" ELSE s[i]]

\* upload_youtube.py line 46
safe_title(title) == ReplaceSpaces(str_strip(KeepSafe(title)))

\* upload_youtube.py line 47, as a file name of tmp
video_output_path(title) == safe_title(title) \o MP4

\* glob.glob(os.path.join(TMP, "*.mp4")): * does not match a leading dot
GlobMp4(files) ==
    {f \in DOMAIN files : f[1] # "." /\ SubSeq(f, Len(f) - 3, Len(f)) = MP4}

\* glob.glob(os.path.join(TMP, "*_AI_*.mp4"))
GlobAiMp4(files) ==
    {f \in GlobMp4(files) :
        \E i \in 1..(Len(f) - 7) : SubSeq(f, i, i + 3) = <<"_", "A", "I", "_">>}

\* os.rename(a, b) and shutil.copy2(a, b): the new name has the modification time of a
Renamed(files, a, b) ==
    [n \in (DOMAIN files \ {a}) \cup {b} |-> IF n = b THEN files[a] ELSE files[n]]

Copied(files, a, b) ==
    [n \in DOMAIN files \cup {b} |-> IF n = b THEN files[a] ELSE files[n]]

\* the paths max(possible_videos, key=os.path.getmtime) can return
LatestMp4(files) ==
    {f \in GlobMp4(files) : \A g \in GlobMp4(files) : files[g] <= files[f]}

\* lines 369-377: the paths current_video_path can be for a platform's pass
CurrentVideoPaths(files) ==
    IF ShortMp4 \in DOMAIN files THEN {ShortMp4}
    ELSE IF GlobMp4(files) # {} THEN LatestMp4(files)
    ELSE {ShortMp4}

\* upload_youtube.py lines 49-58: the rename of short.mp4
AfterRename(files, title) ==
    IF ShortMp4 # video_output_path(title) /\ ShortMp4 \in DOMAIN files
    THEN Renamed(files, ShortMp4, video_output_path(title))
    ELSE files

\* upload_multiplatform.py lines 119-127: short.mp4 copied back from a *_AI_*.mp4 file
AfterRestore(files) ==
    IF GlobAiMp4(files) # {} /\ ShortMp4 \notin DOMAIN files
    THEN Copied(files, CHOOSE f \in GlobAiMp4(files) : TRUE, ShortMp4)
    ELSE files

\* what YouTubeUploader.upload does: returns None before the import (disabled or no
\* credentials), the imported module raises before the rename, the rename fails, the
\* module raises after the rename, or the module completes
YoutubeOutcomes == {"skipped", "raises_early", "rename_fails", "raises_late", "completes"}

\* the files of tmp after YouTubeUploader.upload, lines 96-158
AfterYoutube(files, title, outcome) ==
    IF outcome \in {"skipped", "raises_early"} \/ ShortMp4 \notin DOMAIN files THEN files
    ELSE IF outcome = "rename_fails" THEN AfterRestore(files)
    ELSE IF outcome = "raises_late" THEN AfterRename(files, title)
    ELSE AfterRestore(AfterRename(files, title))

\* upload_to_all, lines 346-350: the video must exist
UploadToAll ==
    /\ pc = "upload_to_all"
    /\ IF ShortMp4 \notin DOMAIN tmp_mp4
       THEN /\ pc' = "raised"
            /\ UNCHANGED platform_i
       ELSE /\ platform_i' = 1
            /\ pc' = IF Len(enabled_platforms) = 0 THEN "returned" ELSE "platform"
    /\ UNCHANGED <<script_exists, video_exists, enabled_platforms, upload_attempt, results,
                   upload_result, exit_code, video_title, tmp_mp4, invoked>>
    /\ UNCHANGED <<core_vars, tts_vars, wrap_vars, scene_vars, img_vars, gen_vars, hist_vars,
                   path_rest>>

\* the end of a platform's pass of the for loop
PassEnds(path) ==
    /\ invoked' = Append(invoked, [platform |-> enabled_platforms[platform_i],
                                   path |-> path,
                                   exists |-> path \in DOMAIN tmp_mp4])
    /\ platform_i' = platform_i + 1
    /\ pc' = IF platform_i + 1 > Len(enabled_platforms) THEN "returned" ELSE "platform"
    /\ UNCHANGED <<script_exists, video_exists, enabled_platforms, upload_attempt, results,
                   upload_result, exit_code, video_title>>
    /\ UNCHANGED <<core_vars, tts_vars, wrap_vars, scene_vars, img_vars, gen_vars, hist_vars,
                   path_rest>>

\* the pass of youtube, lines 359-384 and 96-158: upload_youtube renames short.mp4
YoutubePass ==
    /\ pc = "platform"
    /\ enabled_platforms[platform_i] = "youtube"
    /\ \E path \in CurrentVideoPaths(tmp_mp4), outcome \in YoutubeOutcomes :
          /\ tmp_mp4' = AfterYoutube(tmp_mp4, video_title, outcome)
          /\ PassEnds(path)

\* the pass of any other platform: its uploader leaves the files of tmp alone
OtherPass ==
    /\ pc = "platform"
    /\ enabled_platforms[platform_i] # "youtube"
    /\ \E path \in CurrentVideoPaths(tmp_mp4) :
          /\ tmp_mp4' = tmp_mp4
          /\ PassEnds(path)

\* titles: words, words around AI, nothing but punctuation, the name of the video, a
\* dash between spaces, empty
Titles ==
    {<<"g", " ", "o", "!">>, <<"a", " ", "A", "I", " ", "g">>, <<"!", "!">>,
     <<"s", "h", "o", "r", "t">>, <<" ", "-", " ">>, <<>>}

\* tmp before the uploads: the video alone, the video and an older one, or no video
TmpDirs ==
    {[n \in {ShortMp4} |-> 2], [n \in {ShortMp4, OldMp4} |-> IF n = OldMp4 THEN 1 ELSE 2],
     [n \in {OldMp4} |-> 1]}

InitVideoPath ==
    /\ pc = "upload_to_all"
    /\ script_exists = TRUE
    /\ video_exists = TRUE
    /\ enabled_platforms \in PlatformLists
    /\ platform_i = 0
    /\ upload_attempt = 0
    /\ results = <<>>
    /\ upload_result = Unbound
    /\ exit_code = Running
    /\ video_title \in Titles
    /\ tmp_mp4 \in TmpDirs
    /\ invoked = <<>>
    /\ hook = <<>>
    /\ bullets = <<>>
    /\ cta = <<>>
    /\ section_files = [hook |-> Missing, cta |-> Missing, bullets |-> <<>>]
    /\ voice_ms = 0
    /\ audio_readable = TRUE
    /\ NoTimingYet
    /\ tts_i = 0
    /\ section_paths = <<>>
    /\ WrapIdle
    /\ SceneIdle
    /\ ImgIdle
    /\ GenIdle
    /\ HistIdle
    /\ PathAlone

NextVideoPath == UploadToAll \/ YoutubePass \/ OtherPass

SpecVideoPath == InitVideoPath /\ [][NextVideoPath]_vars

\* C28: every uploader is invoked with the path of a video file that exists at the time
\* of the call, also after the youtube pass renamed short.mp4
C28_UploaderGetsExistingFile ==
    \A i \in 1..Len(invoked) : invoked[i].exists

(* ------------- generate_tts.py: the split of the gTTS narration ------------- *)

\* max(500, ...): the shortest length computed for a section
MinSliceMs == 500

\* duration_ms = max(15000, ...) of the silent narration
SilentFloorMs == 15000

\* lengths (ms) of the narration generate_tts_fallback writes
GttsLengths == {ShortSectionMs, LongSectionMs, SilentFloorMs}

\* section_texts, line 315: the sections whose text is not blank
section_texts == SelectSeq(sections, LAMBDA s : ~StripEmpty(s.text))

RECURSIVE WordsFrom(_, _)
WordsFrom(secs, i) ==
    IF i > Len(secs) THEN 0 ELSE Len(Split(secs[i].text)) + WordsFrom(secs, i + 1)

\* total_words, line 316
total_words == IF WordsFrom(section_texts, 1) = 0 THEN 1 ELSE WordsFrom(section_texts, 1)

\* dur_ms, lines 321-323: max(500, int(total_ms * words / total_words))
dur_ms(s, total) ==
    IF (total * Len(Split(s.text))) \div total_words < MinSliceMs THEN MinSliceMs
    ELSE (total * Len(Split(s.text))) \div total_words

\* len(full_audio[a:b]): the bounds of a slice are cut to the audio
SliceLen(total, a, b) ==
    (IF b < total THEN b ELSE total) - (IF a < total THEN a ELSE total)

\* one iteration of "for name, text in section_texts", lines 320-329
GttsSection ==
    /\ pc = "gtts"
    /\ tts_i <= Len(section_texts)
    /\ LET s == section_texts[tts_i]
           d == dur_ms(s, total_ms)
           n == SliceLen(total_ms, current_pos, current_pos + d)
       IN  /\ section_files' = WriteFile(section_files, s, n)
           /\ section_paths' = Append(section_paths, [section |-> s.section, index |-> s.index])
           /\ slices' = Append(slices, [start |-> current_pos, dur_ms |-> d, length |-> n])
           /\ current_pos' = current_pos + d
    /\ tts_i' = tts_i + 1
    /\ UNCHANGED <<pc, hook, bullets, cta, voice_ms, audio_readable, timing_path,
                   hook_dur, bullet_durs, cta_dur, duration_diff, clips, current_time,
                   bullet_i, final_timeline, total_ms>>
    /\ UNCHANGED <<wrap_vars, scene_vars, img_vars, gen_vars, hist_vars, upl_vars, split_rest>>

\* lines 331-338: the section files are joined with pauses and written over voice.mp3
GttsRecombine ==
    /\ pc = "gtts"
    /\ tts_i > Len(section_texts)
    /\ voice_ms' = CombinedMs(section_files, section_paths, 1)
    /\ pc' = "gtts_done"
    /\ UNCHANGED <<hook, bullets, cta, section_files, audio_readable, timing_path,
                   hook_dur, bullet_durs, cta_dur, duration_diff, clips, current_time,
                   bullet_i, final_timeline, tts_vars, wrap_vars, ext_vars>>

\* the section texts of the split: "", one word and MaxWords words
SplitTexts == {<<>>, WordsText(1), WordsText(MaxWords)}

\* the gTTS narration is written and read back; no section file exists yet
InitSplit ==
    /\ pc = "gtts"
    /\ hook \in SplitTexts
    /\ bullets \in UNION {[1..n -> SplitTexts] : n \in 0..MaxStageBullets}
    /\ cta \in SplitTexts
    /\ section_files = [hook |-> Missing, cta |-> Missing,
                        bullets |-> [i \in 1..Len(bullets) |-> Missing]]
    /\ total_ms \in GttsLengths
    /\ voice_ms = total_ms
    /\ current_pos = 0
    /\ slices = <<>>
    /\ audio_readable = TRUE
    /\ NoTimingYet
    /\ tts_i = 1
    /\ section_paths = <<>>
    /\ WrapIdle
    /\ SceneIdle
    /\ ImgIdle
    /\ GenIdle
    /\ HistIdle
    /\ UplIdle
    /\ SplitAlone

NextSplit == GttsSection \/ GttsRecombine

SpecSplit == InitSplit /\ [][NextSplit]_vars

RECURSIVE SliceSum(_)
SliceSum(sl) == IF sl = <<>> THEN 0 ELSE Head(sl).length + SliceSum(Tail(sl))

\* C29: the slices of the gTTS narration are consecutive and inside the narration: each
\* ends at or before total_ms, their lengths sum to at most total_ms, and every section
\* gets a slice of its full computed length
C29_SlicesInsideNarration ==
    /\ \A i \in 1..Len(slices) :
          /\ slices[i].start + slices[i].dur_ms <= total_ms
          /\ slices[i].length = slices[i].dur_ms
          /\ i > 1 => slices[i].start = slices[i - 1].start + slices[i - 1].dur_ms
    /\ SliceSum(slices) <= total_ms

(* ------------- optimal_scheduler.py: run as a script ------------- *)

\* tolerance_minutes=30
tolerance_minutes == 30

\* the minutes of the hour the scheduler is started at
Minutes == {0, 30, 45}

\* what stands between the quotes of line 105 when the interpreter reads the file: the
\* workflow expression itself, or the value a workflow put in its place
IgnoreInputs == {"${{ github.event.inputs.ignore_schedule }}", "true", "false"}

\* OPTIMAL_SCHEDULE, lines 18-49: the slots of each weekday, in minutes after midnight
OPTIMAL_SCHEDULE ==
    [d \in 0..6 |->
        CASE d = 0 -> <<[time |-> 18 * 60, priority |-> "medium"],
                        [time |-> 20 * 60, priority |-> "low"]>>
          [] d = 1 -> <<[time |-> 12 * 60, priority |-> "medium"],
                        [time |-> 18 * 60 + 30, priority |-> "medium"]>>
          [] d = 2 -> <<[time |-> 16 * 60, priority |-> "high"],
                        [time |-> 19 * 60, priority |-> "high"]>>
          [] d = 3 -> <<[time |-> 17 * 60, priority |-> "high"],
                        [time |-> 19 * 60 + 30, priority |-> "medium"]>>
          [] d = 4 -> <<[time |-> 17 * 60, priority |-> "medium"],
                        [time |-> 19 * 60, priority |-> "medium"]>>
          [] d = 5 -> <<[time |-> 9 * 60, priority |-> "highest"],
                        [time |-> 14 * 60, priority |-> "highest"],
                        [time |-> 18 * 60, priority |-> "high"]>>
          [] OTHER -> <<[time |-> 10 * 60, priority |-> "highest"],
                        [time |-> 15 * 60, priority |-> "high"],
                        [time |-> 19 * 60, priority |-> "medium"]>>]

\* should_post_now(tolerance_minutes=30), lines 196-226: a slot of today lies within the
\* tolerance of the current time
should_post_now(day, hr, mn) ==
    \E k \in 1..Len(OPTIMAL_SCHEDULE[day]) :
        Abs(hr * 60 + mn - OPTIMAL_SCHEDULE[day][k].time) <= tolerance_minutes

\* no module-level decision assigned
Undecided == [assigned |-> FALSE, should_post |-> FALSE, priority |-> "none"]

\* the module-level schedule check, lines 105-121: with ignore_schedule false the elif
\* reads optimal_times, a name the module never binds, and the NameError ends the run
ScheduleCheck ==
    /\ pc = "module"
    /\ IF ignore_input = "true"
       THEN /\ module_decision' = [assigned |-> TRUE, should_post |-> TRUE,
                                   priority |-> "manual"]
            /\ pc' = "main"
       ELSE /\ module_decision' = module_decision
            /\ pc' = "NameError"
    /\ UNCHANGED <<weekday, hour, minute, ignore_input, posting_schedule, sched_frame>>

\* main(), lines 266-368: should_post_now is evaluated and posting_schedule.json written
SchedulerMain ==
    /\ pc = "main"
    /\ posting_schedule' = [should_post_now |-> should_post_now(weekday, hour, minute)]
    /\ pc' = "exited"
    /\ UNCHANGED <<weekday, hour, minute, ignore_input, module_decision, sched_frame>>

\* the script started at any weekday, hour and minute
InitScheduler ==
    /\ pc = "module"
    /\ weekday \in 0..6
    /\ hour \in 0..23
    /\ minute \in Minutes
    /\ ignore_input \in IgnoreInputs
    /\ module_decision = Undecided
    /\ posting_schedule = <<>>
    /\ hook = <<>>
    /\ bullets = <<>>
    /\ cta = <<>>
    /\ section_files = [hook |-> Missing, cta |-> Missing, bullets |-> <<>>]
    /\ voice_ms = 0
    /\ audio_readable = TRUE
    /\ NoTimingYet
    /\ tts_i = 0
    /\ section_paths = <<>>
    /\ WrapIdle
    /\ SceneIdle
    /\ ImgIdle
    /\ GenIdle
    /\ HistIdle
    /\ UplIdle
    /\ SchedAlone

NextScheduler == ScheduleCheck \/ SchedulerMain

SpecScheduler == InitScheduler /\ [][NextScheduler]_vars

\* C30: for every weekday and hour the module-level schedule check completes without
\* error and assigns a posting decision, so that main() is reached and
\* posting_schedule.json written
C30_SchedulerReachesMain ==
    /\ pc # "NameError"
    /\ pc # "module" => module_decision.assigned

====
